---- MODULE Spec2Model ----
(***************************************************************************)
(* resonite-mod-cache: the cache refresh of scripts/collect-mod-info-with- *)
(* hashes.js (variant "hashes") and of the update script kept in           *)
(* scripts/collect-mod-info.js, lines 119-480 (variant "update").          *)
(* A run loads the manifest, the additional repositories and the prior     *)
(* cache, resolves one descriptor per step, and writes cache/mods.json and *)
(* cache/hash-lookup.json.  Runs follow each other; the clock and the host *)
(* (the releases published upstream) change between runs.                  *)
(* A second specification, CallSpec, calls one release collector on its    *)
(* own (getAllReleasesWithHashes, the update script's getAllReleases, or   *)
(* collectModInfo of the collector without hashes, unnamed/part_003) on a  *)
(* release list drawn from a wider set, and then builds the hash index.    *)
(* A third specification, StepSpec, follows one run of either script from  *)
(* one awaited operation to the next: the network requests, the file       *)
(* operations and the timers, each of which begins and then settles.       *)
(* A fourth specification, RefreshSpec, lets runs follow each other at a    *)
(* fixed interval and records when each release list was last received.    *)
(* A fifth specification, WorkflowSpec, is the scheduled workflow "Update   *)
(* MOD Cache" (unnamed/part_000): checkout, the update script, the check   *)
(* for changes under cache/ and the commit.                                *)
(***************************************************************************)
EXTENDS Integers, Sequences, FiniteSets, TLC

VARIABLES
  modsJson,         \* cache/mods.json: the sequence of mod records last written
  hashLookupJson,   \* cache/hash-lookup.json: the index last written
  host,             \* repository -> the tags of the release list the host API answers with
  now,              \* the clock, in days
  manifestDoc,      \* the entries of the remote manifest, in iteration order
  repositoriesJson, \* the file repositories.json
  pc,               \* "idle" (no process) | "manifest" | "additional" | "write"
  variant,          \* the script that is running: "hashes" | "update" ("none" when idle)
  forceHash,        \* process.argv.includes('--force-hash')
  manifest,         \* what fetchModManifest returned
  additionalRepos,  \* what loadAdditionalRepositories returned
  existingCache,    \* what loadExistingCache returned
  mods,             \* the accumulating mod list
  idx,              \* next entry of the loop the run is in
  exitCode,         \* NoExit until a process ended; else the last exit code
  calls,            \* observation: one record per descriptor handled by the running process
  prev,             \* observation: what the last run that wrote the cache saw
  runs,             \* the number of runs started
  given,            \* the arguments of a single function call (CallSpec), else NoCall
  returned,         \* what that call returned, <<>> before it
  op,               \* the awaited operations of a run followed step by step (StepSpec)
  workflow          \* the git repository and the job of the scheduled workflow (WorkflowSpec)

vars == << modsJson, hashLookupJson, host, now, manifestDoc, repositoriesJson, pc, variant,
           forceHash, manifest, additionalRepos, existingCache, mods, idx, exitCode, calls,
           prev, runs, given, returned, op, workflow >>

\* The memory of the process
procVars == << variant, forceHash, manifest, additionalRepos, existingCache, mods, idx, calls >>

\* The world outside the process
worldVars == << host, now, manifestDoc, repositoriesJson >>

\* A function called on its own
callVars == << given, returned >>

\* The awaited operations of a run
stepVars == << op >>

\* The scheduled workflow
workflowVars == << workflow >>

\* The cache files and the runs that wrote them
runVars == << modsJson, hashLookupJson, pc, exitCode, prev, runs >>

-----------------------------------------------------------------------------
(* Bounds of the model *)

MaxRuns == 2
MaxNow == 8

(* Program constants *)

FreshnessWindow == 7
maxSize == 52428800

Null == "null"
Undefined == "undefined"
NoExit == 0 - 1

Truthy(s) == s # Null /\ s # Undefined /\ s # ""

-----------------------------------------------------------------------------
(* The outside world: repositories, releases, assets, files *)

Repo1 == "https://github.com/o1/r1"
Repo2 == "https://github.com/o2/r2"
NotGitHub == "https://example.org/mod"
GitHubUrls == {Repo1, Repo2}

RepoKey(url) == IF url = Repo1 THEN "o1/r1" ELSE "o2/r2"

Tags == {"v0", "v1", "v2", "v3", "v4", "v5", "v6", "v7", "v8", "v9"}

AssetUrls == [u \in GitHubUrls |-> [t \in Tags |-> u \o "/releases/download/" \o t \o "/Mod.dll"]]

\* browser_download_url of the .dll asset of a release
AssetUrl(url, tag) == AssetUrls[url][tag]

PackageUrls == [u \in GitHubUrls |-> [t \in Tags |-> u \o "/releases/download/" \o t \o "/Mod.nupkg"]]

\* browser_download_url of the .nupkg asset of a release
PackageUrl(url, tag) == PackageUrls[url][tag]

\* What the host serves at the download URL of a .dll: the content-length header
\* (<<>> when the response carries none), the body and the number of its bytes.
RemoteFile(url, tag) ==
  CASE tag = "v3" -> [content_length |-> <<60000001>>, body |-> RepoKey(url) \o "@v3", length |-> 60000001]
    [] tag = "v2" -> [content_length |-> <<2048>>, body |-> RepoKey(url) \o "@v2", length |-> 2048]
    [] tag = "v4" -> [content_length |-> <<0>>, body |-> "", length |-> 0]
    [] tag = "v5" -> [content_length |-> <<>>, body |-> RepoKey(url) \o "@v5", length |-> 60000000]
    [] tag = "v6" -> [content_length |-> <<1024>>, body |-> RepoKey(url) \o "@v6", length |-> 60000000]
    [] tag = "v7" -> [content_length |-> <<701>>, body |-> RepoKey(url) \o "@v7", length |-> 701]
    [] tag = "v8" -> [content_length |-> <<801>>, body |-> RepoKey(url) \o "@v8", length |-> 801]
    [] OTHER      -> [content_length |-> <<1024>>, body |-> "shared@v1", length |-> 1024]

\* What the host serves at the download URL of a .nupkg.
RemotePackage(url, tag) ==
  [content_length |-> <<4096>>, body |-> RepoKey(url) \o "@" \o tag \o ".nupkg", length |-> 4096]

TextAsset == [name |-> "README.txt", browser_download_url |-> "https://example.org/readme", size |-> 10]

Files ==
  { [url |-> AssetUrl(u, t), file |-> RemoteFile(u, t)] : u \in GitHubUrls, t \in Tags \ {"v0", "v9"} }
  \cup { [url |-> PackageUrl(u, t), file |-> RemotePackage(u, t)] : u \in GitHubUrls, t \in {"v7", "v8"} }
  \cup { [url |-> TextAsset.browser_download_url,
          file |-> [content_length |-> <<10>>, body |-> "readme", length |-> 10]] }

RemoteFiles == [u \in {f.url : f \in Files} |-> (CHOOSE f \in Files : f.url = u).file]

Remote(url) == RemoteFiles[url]

\* crypto.createHash('sha256').update(buffer).digest('hex')
Sha256(body) ==
  CASE body = "shared@v1"        -> "1111111111111111111111111111111111111111111111111111111111111111"
    [] body = ""                 -> "e3b0c44298fc1c149afbf4c8996fb92427ae41e4649b934ca495991b7852b855"
    [] body = "o1/r1@v2"         -> "2a2a2a2a2a2a2a2a2a2a2a2a2a2a2a2a2a2a2a2a2a2a2a2a2a2a2a2a2a2a2a2a"
    [] body = "o2/r2@v2"         -> "2b2b2b2b2b2b2b2b2b2b2b2b2b2b2b2b2b2b2b2b2b2b2b2b2b2b2b2b2b2b2b2b"
    [] body = "o1/r1@v5"         -> "5a5a5a5a5a5a5a5a5a5a5a5a5a5a5a5a5a5a5a5a5a5a5a5a5a5a5a5a5a5a5a5a"
    [] body = "o2/r2@v5"         -> "5b5b5b5b5b5b5b5b5b5b5b5b5b5b5b5b5b5b5b5b5b5b5b5b5b5b5b5b5b5b5b5b"
    [] body = "o1/r1@v6"         -> "6a6a6a6a6a6a6a6a6a6a6a6a6a6a6a6a6a6a6a6a6a6a6a6a6a6a6a6a6a6a6a6a"
    [] body = "o2/r2@v6"         -> "6b6b6b6b6b6b6b6b6b6b6b6b6b6b6b6b6b6b6b6b6b6b6b6b6b6b6b6b6b6b6b6b"
    [] body = "o1/r1@v7"         -> "7a7a7a7a7a7a7a7a7a7a7a7a7a7a7a7a7a7a7a7a7a7a7a7a7a7a7a7a7a7a7a7a"
    [] body = "o2/r2@v7"         -> "7b7b7b7b7b7b7b7b7b7b7b7b7b7b7b7b7b7b7b7b7b7b7b7b7b7b7b7b7b7b7b7b"
    [] body = "o1/r1@v8"         -> "8a8a8a8a8a8a8a8a8a8a8a8a8a8a8a8a8a8a8a8a8a8a8a8a8a8a8a8a8a8a8a8a"
    [] body = "o2/r2@v8"         -> "8b8b8b8b8b8b8b8b8b8b8b8b8b8b8b8b8b8b8b8b8b8b8b8b8b8b8b8b8b8b8b8b"
    [] body = "o1/r1@v7.nupkg"   -> "7c7c7c7c7c7c7c7c7c7c7c7c7c7c7c7c7c7c7c7c7c7c7c7c7c7c7c7c7c7c7c7c"
    [] body = "o2/r2@v7.nupkg"   -> "7d7d7d7d7d7d7d7d7d7d7d7d7d7d7d7d7d7d7d7d7d7d7d7d7d7d7d7d7d7d7d7d"
    [] body = "o1/r1@v8.nupkg"   -> "8c8c8c8c8c8c8c8c8c8c8c8c8c8c8c8c8c8c8c8c8c8c8c8c8c8c8c8c8c8c8c8c"
    [] body = "o2/r2@v8.nupkg"   -> "8d8d8d8d8d8d8d8d8d8d8d8d8d8d8d8d8d8d8d8d8d8d8d8d8d8d8d8d8d8d8d8d"
    [] body = "readme"           -> "0d0d0d0d0d0d0d0d0d0d0d0d0d0d0d0d0d0d0d0d0d0d0d0d0d0d0d0d0d0d0d0d"
    [] body = "o1/r1@v3"         -> "3a3a3a3a3a3a3a3a3a3a3a3a3a3a3a3a3a3a3a3a3a3a3a3a3a3a3a3a3a3a3a3a"
    [] OTHER                     -> "3b3b3b3b3b3b3b3b3b3b3b3b3b3b3b3b3b3b3b3b3b3b3b3b3b3b3b3b3b3b3b3b"

DllAsset(url, tag, reported) ==
  [name |-> "Mod.dll", browser_download_url |-> AssetUrl(url, tag), size |-> reported]

NupkgAsset(url, tag, reported) ==
  [name |-> "Mod.nupkg", browser_download_url |-> PackageUrl(url, tag), size |-> reported]

\* A release as the host API lists it (tag_name, published_at, assets).
HostRelease(url, tag) ==
  CASE tag = "v1" -> [tag_name |-> "v1", published_at |-> 1, assets |-> <<DllAsset(url, "v1", 1000)>>]
    [] tag = "v2" -> [tag_name |-> "v2", published_at |-> 2, assets |-> <<TextAsset, DllAsset(url, "v2", 2048)>>]
    [] tag = "v3" -> [tag_name |-> "v3", published_at |-> 3, assets |-> <<DllAsset(url, "v3", 60000000)>>]
    [] tag = "v4" -> [tag_name |-> "v4", published_at |-> 5, assets |-> <<DllAsset(url, "v4", 5)>>]
    [] tag = "v5" -> [tag_name |-> "v5", published_at |-> 6, assets |-> <<DllAsset(url, "v5", 60000000)>>]
    [] tag = "v6" -> [tag_name |-> "v6", published_at |-> 7, assets |-> <<DllAsset(url, "v6", 60000000)>>]
    [] tag = "v7" -> [tag_name |-> "v7", published_at |-> 8,
                      assets |-> <<NupkgAsset(url, "v7", 4096), DllAsset(url, "v7", 701)>>]
    [] tag = "v8" -> [tag_name |-> "v8", published_at |-> 9,
                      assets |-> <<DllAsset(url, "v8", 801), NupkgAsset(url, "v8", 4096)>>]
    [] tag = "v9" -> [tag_name |-> "v9", published_at |-> 10, assets |-> <<>>]
    [] OTHER      -> [tag_name |-> "v0", published_at |-> 4, assets |-> <<TextAsset>>]

\* The release lists a repository can hold, in the order the API returns them.
HostTags == { <<"v1", "v2">>, <<"v0", "v3", "v2">> }

HostList(url, tags) == [k \in 1..Len(tags) |-> HostRelease(url, tags[k])]

\* The answers of octokit.paginate: success, or an error with status and message.
ApiOk == [status |-> 200, rateLimitMessage |-> FALSE]
ApiRateLimit == [status |-> 403, rateLimitMessage |-> TRUE]
ApiServerError == [status |-> 500, rateLimitMessage |-> FALSE]
ApiOutcomes == {ApiOk, ApiRateLimit, ApiServerError}

-----------------------------------------------------------------------------
(* Helpers of the scripts *)

\* asset.name.endsWith(suffix)
endsWith(name, suffix) ==
  \/ name = "Mod.dll" /\ suffix = ".dll"
  \/ name = "Mod.nupkg" /\ suffix = ".nupkg"

\* Array.prototype.find: the first element at one of the positions hits (those
\* that satisfy the test), as <<e>>, or <<>>.
Find(seq, hits) ==
  IF hits = {} THEN <<>> ELSE <<seq[CHOOSE k \in hits : \A j \in hits : k <= j]>>

\* The first asset, whatever its name.
FindAssetAnySuffix(assets, suffixes) == Find(assets, 1..Len(assets))

\* release.assets.find(asset => asset.name.endsWith(...)), for one suffix or several
FindAsset(assets, suffixes) ==
  Find(assets, {k \in 1..Len(assets) : \E x \in suffixes : endsWith(assets[k].name, x)})

\* The first cached release, whatever its version.
FindReleaseFirst(existingReleases, tag) ==
  Find(existingReleases, {k \in 1..Len(existingReleases) : TRUE})

\* existingReleases.find(r => r.version === release.tag_name)
FindRelease(existingReleases, tag) ==
  Find(existingReleases, {k \in 1..Len(existingReleases) : existingReleases[k].version = tag})

\* Where the sort puts r in the already sorted t: after every element that is
\* not older (the sort is stable).
SortInsert(r, t) ==
  LET k == Cardinality({j \in 1..Len(t) : t[j].published_at >= r.published_at})
  IN SubSeq(t, 1, k) \o <<r>> \o SubSeq(t, k + 1, Len(t))

RECURSIVE SortPrefix(_, _)
SortPrefix(s, n) == IF n = 0 THEN <<>> ELSE SortInsert(s[n], SortPrefix(s, n - 1))

\* The release records left in the order the host listed them.
SortOmitted(releaseData) == releaseData

\* releaseData.sort((a, b) => new Date(b.published_at) - new Date(a.published_at))
SortByPublishedDesc(releaseData) == SortPrefix(releaseData, Len(releaseData))

parseGitHubUrl(url) ==
  IF url \in GitHubUrls THEN <<[repo |-> url]>> ELSE <<>>

isRateLimitError(error) == error.status = 403 /\ error.rateLimitMessage

\* parseInt(response.headers.get('content-length') || '0')
contentLength(response) ==
  IF response.content_length = <<>> THEN 0 ELSE response.content_length[1]

\* downloadAndHash: <<>> for null, else <<[sha256, file_size]>>.  failing is the
\* set of URLs whose response is not ok (or whose fetch rejects) in this call.
downloadAndHash(url, failing) ==
  IF ~Truthy(url) \/ url \in failing THEN <<>>
  ELSE IF contentLength(Remote(url)) > maxSize THEN <<>>
  ELSE <<[sha256 |-> Sha256(Remote(url).body), file_size |-> Remote(url).length]>>

\* The size of the hash information alone, null without it.
OrSizeOfHashOnly(hashInfo, reported) ==
  IF hashInfo # <<>> THEN hashInfo[1].file_size ELSE 0

\* hashInfo?.file_size || asset.size || null  (0 stands for null)
OrSize(hashInfo, reported) ==
  IF hashInfo # <<>> /\ hashInfo[1].file_size # 0 THEN hashInfo[1].file_size ELSE reported

OrSha(hashInfo) == IF hashInfo # <<>> /\ Truthy(hashInfo[1].sha256) THEN hashInfo[1].sha256 ELSE Null

\* No hash taken from the cached release.
CachedHashInfoNone(existingRelease) == <<>>

\* existingRelease?.sha256: the cached hash information, <<>> without it.
CachedHashInfo(existingRelease) ==
  IF existingRelease # <<>> /\ Truthy(existingRelease[1].sha256)
  THEN <<[sha256 |-> existingRelease[1].sha256, file_size |-> existingRelease[1].file_size]>>
  ELSE <<>>

-----------------------------------------------------------------------------
(* collect-mod-info-with-hashes.js *)

\* Lines 91-97: whether the release's asset is downloaded and hashed.
shouldCalculateHash(calculateHashes, url, existingRelease, force) ==
  \/ calculateHashes /\ Truthy(url)
  \/ force /\ existingRelease # <<>> /\ ~Truthy(existingRelease[1].sha256)

\* Lines 87-131: the hash of one kept release.  downloadAndHash catches every
\* failure and returns null, so the catch of lines 104-124 is never entered.
HashInfoWithHashes(url, calculateHashes, existingRelease, force, failing) ==
  IF shouldCalculateHash(calculateHashes, url, existingRelease, force)
  THEN downloadAndHash(url, failing)
  ELSE CachedHashInfo(existingRelease)

\* Lines 78-146: one host release to its release record, <<>> when it has no .dll.
ReleaseInfoWithHashes(release, calculateHashes, existingReleases, force, failing) ==
  LET dllAsset == FindAsset(release.assets, {".dll"})
      existingRelease == FindRelease(existingReleases, release.tag_name)
  IN IF dllAsset = <<>> THEN <<>>
     ELSE LET url == dllAsset[1].browser_download_url
              hashInfo == HashInfoWithHashes(url, calculateHashes, existingRelease, force, failing)
          IN << [version |-> release.tag_name,
                 download_url |-> IF Truthy(url) THEN url ELSE Null,
                 published_at |-> release.published_at,
                 file_name |-> dllAsset[1].name,
                 file_size |-> OrSize(hashInfo, dllAsset[1].size),
                 sha256 |-> OrSha(hashInfo)] >>

\* The URLs downloadAndHash is called with, in the order of the host's list.
DownloadsWithHashes(releases, calculateHashes, existingReleases, force) ==
  LET Dl(release) ==
        LET dllAsset == FindAsset(release.assets, {".dll"})
        IN dllAsset # <<>> /\
           shouldCalculateHash(calculateHashes, dllAsset[1].browser_download_url,
                               FindRelease(existingReleases, release.tag_name), force)
      Url(release) == FindAsset(release.assets, {".dll"})[1].browser_download_url
      kept == SelectSeq(releases, Dl)
  IN [k \in 1..Len(kept) |-> Url(kept[k])]

RECURSIVE Flatten(_)
Flatten(s) == IF s = <<>> THEN <<>> ELSE s[1] \o Flatten(Tail(s))

\* Lines 76-153: the loop over the releases and the sort.
ReleaseDataWithHashes(releases, calculateHashes, existingReleases, force, failing) ==
  SortByPublishedDesc(Flatten(
    [k \in 1..Len(releases) |->
       ReleaseInfoWithHashes(releases[k], calculateHashes, existingReleases, force, failing)]))

\* The rate-limit answer handled by returning an empty list.
ListReleasesStepDropsCache(api, existingReleases) ==
  IF api = ApiOk THEN [kind |-> "releases"]
  ELSE IF isRateLimitError(api) THEN [kind |-> "return", value |-> <<>>]
  ELSE [kind |-> "throw", error |-> api]

\* Lines 62-74: the release-list request and its own catch.
ListReleasesStep(api, existingReleases) ==
  IF api = ApiOk THEN [kind |-> "releases"]
  ELSE IF isRateLimitError(api) THEN [kind |-> "return", value |-> existingReleases]
  ELSE [kind |-> "throw", error |-> api]

\* The outer catch raising to the caller.
OuterCatchRethrows(error, existingReleases) ==
  [thrown |-> TRUE, error |-> error, value |-> <<>>, downloads |-> <<>>]

\* Lines 154-161: the catch around the whole function body.
OuterCatchWithHashes(error, existingReleases) ==
  [thrown |-> FALSE, error |-> error, value |-> existingReleases, downloads |-> <<>>]

\* Lines 56-162.  api is the host's answer to the release-list request.  The
\* result says whether the function threw, and what it returned.
getAllReleasesWithHashes(releases, calculateHashes, existingReleases, force, api, failing) ==
  LET step == ListReleasesStep(api, existingReleases)
  IN CASE step.kind = "return" ->
            [thrown |-> FALSE, error |-> api, value |-> step.value, downloads |-> <<>>]
       [] step.kind = "throw" -> OuterCatchWithHashes(step.error, existingReleases)
       [] OTHER ->
            [thrown |-> FALSE, error |-> api,
             value |-> ReleaseDataWithHashes(releases, calculateHashes, existingReleases, force, failing),
             downloads |-> DownloadsWithHashes(releases, calculateHashes, existingReleases, force)]

\* A field of a parsed JSON object: undefined when the object has no such key.
Get(obj, key) == IF key \in DOMAIN obj THEN obj[key] ELSE Undefined

\* existingModsMap.get(source): the last cache record with that source_location.
ExistingMod(cache, source) ==
  LET hits == {k \in 1..Len(cache) : cache[k].source_location = source}
  IN IF hits = {} THEN <<>> ELSE <<cache[CHOOSE k \in hits : \A j \in hits : j <= k]>>

\* existingMod?.releases || []
ReleasesOf(existingMod) ==
  IF existingMod # <<>> /\ "releases" \in DOMAIN existingMod[1] THEN existingMod[1].releases ELSE <<>>

\* A record exactly seven days old counted as stale.
isOlderThan7DaysInclusive(existingMod, t) ==
  \/ existingMod = <<>>
  \/ "last_updated" \notin DOMAIN existingMod[1]
  \/ t - existingMod[1].last_updated >= FreshnessWindow

\* Lines 235-237
isOlderThan7Days(existingMod, t) ==
  \/ existingMod = <<>>
  \/ "last_updated" \notin DOMAIN existingMod[1]
  \/ t - existingMod[1].last_updated > FreshnessWindow

\* every() in place of some(): incomplete only when no release carries a hash.
hasIncompleteHashesEvery(existingMod) ==
  \A k \in 1..Len(ReleasesOf(existingMod)) :
     Truthy(ReleasesOf(existingMod)[k].download_url) /\ ~Truthy(ReleasesOf(existingMod)[k].sha256)

\* Lines 240-242
hasIncompleteHashes(existingMod) ==
  \E k \in 1..Len(ReleasesOf(existingMod)) :
     Truthy(ReleasesOf(existingMod)[k].download_url) /\ ~Truthy(ReleasesOf(existingMod)[k].sha256)

\* The decision without the --force-hash flag.
shouldCalculateHashesNoForce(existingMod, force, t) ==
  isOlderThan7Days(existingMod, t) \/ hasIncompleteHashes(existingMod)

\* Line 247
shouldCalculateHashes(existingMod, force, t) ==
  isOlderThan7Days(existingMod, t) \/ hasIncompleteHashes(existingMod) \/ force

\* The test of line 249 inverted.
UsesCachedDataInverted(existingMod, force, t) ==
  existingMod # <<>> /\ shouldCalculateHashes(existingMod, force, t)

\* Line 249: the cached releases are used and no request is made.
UsesCachedData(existingMod, force, t) ==
  existingMod # <<>> /\ ~shouldCalculateHashes(existingMod, force, t)

\* Lines 232-280 (and 319-363 for an additional repository): the releases of a
\* descriptor whose reference parsed.  stop is the break of lines 271-275.
ResolveWithHashes(source, cache, force, t, releases, api, failing) ==
  LET existingMod == ExistingMod(cache, source)
      existing == ReleasesOf(existingMod)
  IN IF UsesCachedData(existingMod, force, t)
     THEN [requested |-> FALSE, api |-> ApiOk, failing |-> {}, existing |-> existing,
           thrown |-> FALSE, value |-> <<>>, downloads |-> <<>>, releases |-> existing,
           stop |-> FALSE]
     ELSE LET r == getAllReleasesWithHashes(releases, shouldCalculateHashes(existingMod, force, t),
                                            existing, force, api, failing)
          IN [requested |-> TRUE, api |-> api, failing |-> failing, existing |-> existing,
              thrown |-> r.thrown, value |-> r.value, downloads |-> r.downloads,
              releases |-> IF r.thrown THEN existing ELSE r.value,
              stop |-> r.thrown /\ isRateLimitError(r.error)]

\* The version of the last release of the list.
LatestVersionOfLast(releases) ==
  IF releases = <<>> THEN Null ELSE releases[Len(releases)].version

\* releases[0] || null, and its fields
LatestVersion(releases) == IF releases = <<>> THEN Null ELSE releases[1].version
LatestDownloadUrl(releases) ==
  IF releases # <<>> /\ Truthy(releases[1].download_url) THEN releases[1].download_url ELSE Null

CountWithHash(releases) == Cardinality({k \in 1..Len(releases) : Truthy(releases[k].sha256)})

\* Lines 285-303 and 367-385
ModRecordWithHashes(name, source, releases, provenance, t) ==
  [name |-> name, source_location |-> source,
   latest_version |-> LatestVersion(releases),
   latest_download_url |-> LatestDownloadUrl(releases),
   releases |-> releases, last_updated |-> t, source |-> provenance,
   hash_metadata |-> [total_releases |-> Len(releases),
                      releases_with_hash |-> CountWithHash(releases),
                      last_hash_update |-> t]]

LookupRecord(mod, release) ==
  [mod_name |-> mod.name, mod_source |-> mod.source_location, version |-> release.version,
   file_name |-> release.file_name, file_size |-> release.file_size,
   published_at |-> release.published_at, download_url |-> release.download_url]

\* mod.releases || []
ModReleases(mod) == IF "releases" \in DOMAIN mod THEN mod.releases ELSE <<>>

\* The positions <<mod, release>> of a mod list.
ReleasePositions(ms) ==
  UNION { {<<i, k>> : k \in 1..Len(ModReleases(ms[i]))} : i \in 1..Len(ms) }

\* The hash fields of all releases, the empty ones included.
AllHashesUnfiltered(ms) ==
  {ms[p[1]].releases[p[2]].sha256 : p \in ReleasePositions(ms)}

\* if (release.sha256): the keys of the index
AllHashes(ms) ==
  {ms[p[1]].releases[p[2]].sha256 :
     p \in {q \in ReleasePositions(ms) : Truthy(ms[q[1]].releases[q[2]].sha256)}}

\* The index holding under each hash only the first release that carries it.
createHashLookupTableFirstOnly(ms) ==
  [h \in AllHashes(ms) |->
     SubSeq(Flatten([i \in 1..Len(ms) |->
        Flatten([k \in 1..Len(ms[i].releases) |->
           IF ms[i].releases[k].sha256 = h THEN <<LookupRecord(ms[i], ms[i].releases[k])>>
           ELSE <<>>])]), 1, 1)]

\* Lines 392-415: hash -> the records of the releases that carry it, in order.
createHashLookupTable(ms) ==
  [h \in AllHashes(ms) |->
     Flatten([i \in 1..Len(ms) |->
        Flatten([k \in 1..Len(ms[i].releases) |->
           IF ms[i].releases[k].sha256 = h THEN <<LookupRecord(ms[i], ms[i].releases[k])>>
           ELSE <<>>])])]

-----------------------------------------------------------------------------
(* collect-mod-info.js, lines 119-480: the update script *)

\* Lines 196-238: one host release to its release record, <<>> when it has no
\* .dll and no .nupkg asset.
ReleaseInfoUpdate(release, existingReleases, failing) ==
  LET modAsset == FindAsset(release.assets, {".dll", ".nupkg"})
      existingRelease == FindRelease(existingReleases, release.tag_name)
  IN IF modAsset = <<>> THEN <<>>
     ELSE LET url == modAsset[1].browser_download_url
              cached == CachedHashInfo(existingRelease)
              hashInfo == IF Truthy(url) /\ cached = <<>> THEN downloadAndHash(url, failing)
                          ELSE cached
          IN << [version |-> release.tag_name, download_url |-> url,
                 published_at |-> release.published_at, file_name |-> modAsset[1].name,
                 file_size |-> OrSize(hashInfo, modAsset[1].size),
                 sha256 |-> OrSha(hashInfo)] >>

DownloadsUpdate(releases, existingReleases) ==
  LET Dl(release) ==
        LET modAsset == FindAsset(release.assets, {".dll", ".nupkg"})
        IN modAsset # <<>> /\ Truthy(modAsset[1].browser_download_url)
           /\ CachedHashInfo(FindRelease(existingReleases, release.tag_name)) = <<>>
      Url(release) == FindAsset(release.assets, {".dll", ".nupkg"})[1].browser_download_url
      kept == SelectSeq(releases, Dl)
  IN [k \in 1..Len(kept) |-> Url(kept[k])]

\* Lines 194-244
ReleaseDataUpdate(releases, existingReleases, failing) ==
  SortByPublishedDesc(Flatten(
    [k \in 1..Len(releases) |-> ReleaseInfoUpdate(releases[k], existingReleases, failing)]))

\* Lines 245-248
OuterCatchUpdate(error, existingReleases) ==
  [thrown |-> FALSE, error |-> error, value |-> existingReleases, downloads |-> <<>>]

\* Lines 174-249
getAllReleases(releases, existingReleases, api, failing) ==
  LET step == ListReleasesStep(api, existingReleases)
  IN CASE step.kind = "return" ->
            [thrown |-> FALSE, error |-> api, value |-> step.value, downloads |-> <<>>]
       [] step.kind = "throw" -> OuterCatchUpdate(step.error, existingReleases)
       [] OTHER ->
            [thrown |-> FALSE, error |-> api,
             value |-> ReleaseDataUpdate(releases, existingReleases, failing),
             downloads |-> DownloadsUpdate(releases, existingReleases)]

\* Lines 318-336: a manifest entry whose reference parsed.
ResolveUpdate(source, cache, releases, api, failing) ==
  LET existing == ReleasesOf(ExistingMod(cache, source))
      r == getAllReleases(releases, existing, api, failing)
  IN [requested |-> TRUE, api |-> api, failing |-> failing, existing |-> existing,
      thrown |-> r.thrown, value |-> r.value, downloads |-> r.downloads,
      releases |-> IF r.thrown THEN existing ELSE r.value,
      stop |-> r.thrown /\ isRateLimitError(r.error)]

\* Lines 341-354 and 378-391
ModRecordUpdate(name, source, releases, provenance, t) ==
  [name |-> name, source_location |-> source,
   latest_version |-> LatestVersion(releases),
   latest_download_url |-> LatestDownloadUrl(releases),
   releases |-> releases, last_updated |-> t, source |-> provenance]

LookupRecordUpdate(mod, release) ==
  [mod_name |-> mod.name, version |-> release.version, download_url |-> release.download_url,
   file_name |-> release.file_name, file_size |-> release.file_size]

\* Lines 409-427: hash -> the record of the last release that carries it.
generateHashLookup(ms) ==
  LET Carries(h) == {p \in ReleasePositions(ms) :
                        /\ ms[p[1]].releases[p[2]].sha256 = h
                        /\ Truthy(ms[p[1]].releases[p[2]].download_url)}
      Last(h) == CHOOSE p \in Carries(h) : \A q \in Carries(h) :
                    q[1] < p[1] \/ (q[1] = p[1] /\ q[2] <= p[2])
  IN [h \in {g \in AllHashes(ms) : Carries(g) # {}} |->
        LookupRecordUpdate(ms[Last(h)[1]], ms[Last(h)[1]].releases[Last(h)[2]])]

-----------------------------------------------------------------------------
(* unnamed/part_003: the collector that computes no hashes *)

\* Lines 27-42: one host release to its release record (0 stands for a null size).
ReleaseInfoStandard(release) ==
  LET dllAsset == FindAsset(release.assets, {".dll"})
  IN [version |-> release.tag_name,
      download_url |-> IF dllAsset # <<>> /\ Truthy(dllAsset[1].browser_download_url)
                       THEN dllAsset[1].browser_download_url ELSE Null,
      published_at |-> release.published_at,
      file_name |-> IF dllAsset # <<>> THEN dllAsset[1].name ELSE Null,
      file_size |-> IF dllAsset # <<>> THEN dllAsset[1].size ELSE 0]

\* Lines 18-52: releases.map, the sort, and [] when the request fails.
getAllReleasesStandard(releases, api) ==
  IF api = ApiOk
  THEN SortByPublishedDesc([k \in 1..Len(releases) |-> ReleaseInfoStandard(releases[k])])
  ELSE <<>>

\* Lines 101-114 and 139-152
ModRecordStandard(name, source, releases, provenance, t) ==
  [name |-> name, source_location |-> source,
   latest_version |-> LatestVersion(releases),
   latest_download_url |-> LatestDownloadUrl(releases),
   releases |-> releases, last_updated |-> t, source |-> provenance]

\* Lines 76-156.  lists gives the release list of each repository and api the
\* host's answer to each release-list request.  A manifest entry whose
\* sourceLocation does not parse gets a record without releases; an additional
\* repository whose reference does not parse is skipped.
collectModInfoStandard(m, additional, lists, api, t) ==
  LET Releases(source) ==
        IF parseGitHubUrl(source) = <<>> THEN <<>>
        ELSE getAllReleasesStandard(lists[source], api)
      Parses(repo) == parseGitHubUrl(repo.repository) # <<>>
      kept == SelectSeq(additional, Parses)
  IN [k \in 1..Len(m) |->
        ModRecordStandard(m[k].name, m[k].sourceLocation, Releases(m[k].sourceLocation),
                          "manifest", t)]
     \o [k \in 1..Len(kept) |->
           ModRecordStandard(kept[k].name, kept[k].repository, Releases(kept[k].repository),
                             "additional", t)]

-----------------------------------------------------------------------------
(* The inputs of a run *)

Alpha == [author |-> "authorA", name |-> "Alpha", sourceLocation |-> Repo1]
Beta == [author |-> "authorA", name |-> "Beta", sourceLocation |-> Repo2]
Gamma == [author |-> "authorB", name |-> "Gamma", sourceLocation |-> NotGitHub]

\* repositories.json: missing, unreadable or not JSON; an object with a
\* repositories array; an object without one.
NoRepositoriesFile == [readable |-> FALSE]
RepositoriesFile(entries) == [readable |-> TRUE, repositories |-> entries]
NoRepositoriesArray == [readable |-> TRUE]

\* The manifest and the repositories.json of a behaviour.
Inputs ==
  { [manifest |-> <<Alpha, Beta>>, file |-> NoRepositoriesFile],
    [manifest |-> <<Gamma, Alpha>>,
     file |-> RepositoriesFile(<< [name |-> "Extra", repository |-> Repo1] >>)],
    [manifest |-> <<Beta>>,
     file |-> RepositoriesFile(<< [name |-> "Off", repository |-> Repo1, enabled |-> FALSE],
                                  [name |-> "Elsewhere", repository |-> NotGitHub, url |-> NotGitHub],
                                  [name |-> "ByUrl", url |-> Repo1] >>)],
    [manifest |-> <<Alpha>>, file |-> NoRepositoriesArray] }

\* The loader answering with an entry of its own when the file is of no use.
loadAdditionalRepositoriesDefault(file) ==
  IF ~file.readable \/ "repositories" \notin DOMAIN file
  THEN << [name |-> "Extra", repository |-> Repo1, url |-> Repo1] >>
  ELSE LET Enabled(repo) == ~("enabled" \in DOMAIN repo /\ repo.enabled = FALSE)
       IN SelectSeq(file.repositories, Enabled)

\* The loader without the test of the enabled field.
loadAdditionalRepositoriesAll(file) ==
  IF ~file.readable THEN <<>>
  ELSE IF "repositories" \notin DOMAIN file THEN <<>>
  ELSE file.repositories

\* Lines 174-184 (update script: 260-270)
loadAdditionalRepositories(file) ==
  IF ~file.readable THEN <<>>                       \* readFile or JSON.parse throws
  ELSE IF "repositories" \notin DOMAIN file THEN <<>> \* undefined.filter throws
  ELSE LET Enabled(repo) == ~("enabled" \in DOMAIN repo /\ repo.enabled = FALSE)
       IN SelectSeq(file.repositories, Enabled)

NoPrev == [variant |-> "none"]

\* The clock readings of the model: the day of the first run, and the days from
\* the end of the freshness window on.
Instants == {0} \cup (FreshnessWindow..MaxNow)

\* The repository whose releases change upstream in the model; the other one
\* keeps its first list.
Changing == {Repo1}
SteadyTags == <<"v1", "v2">>

NoCall == [fn |-> "none"]

\* No run is followed step by step.
NoSteps == [waiting |-> FALSE]

\* No workflow is modelled.
NoWorkflow == [phase |-> "none"]

-----------------------------------------------------------------------------
(* The state machine *)

Init ==
  /\ modsJson = <<>>
  /\ hashLookupJson = <<>>
  /\ host \in {h \in [GitHubUrls -> HostTags] : \A u \in GitHubUrls \ Changing : h[u] = SteadyTags}
  /\ now = 0
  /\ \E in \in Inputs : manifestDoc = in.manifest /\ repositoriesJson = in.file
  /\ pc = "idle"
  /\ variant = "none"
  /\ forceHash = FALSE
  /\ manifest = <<>>
  /\ additionalRepos = <<>>
  /\ existingCache = <<>>
  /\ mods = <<>>
  /\ idx = 1
  /\ exitCode = NoExit
  /\ calls = <<>>
  /\ prev = NoPrev
  /\ runs = 0
  /\ given = NoCall
  /\ returned = <<>>
  /\ op = NoSteps
  /\ workflow = NoWorkflow

\* Time passes between two runs (the first run that writes sets the origin).
Tick ==
  /\ pc = "idle"
  /\ prev # NoPrev
  /\ \E t \in Instants : t > now /\ now' = t
  /\ UNCHANGED << modsJson, hashLookupJson, host, manifestDoc, repositoriesJson, pc,
                  exitCode, prev, runs >>
  /\ UNCHANGED procVars
  /\ UNCHANGED callVars
  /\ UNCHANGED stepVars
  /\ UNCHANGED workflowVars

\* A repository's releases change upstream between two runs.
Publish ==
  /\ pc = "idle"
  /\ \E u \in Changing, tags \in HostTags :
        /\ tags # host[u]
        /\ host' = [host EXCEPT ![u] = tags]
  /\ UNCHANGED << modsJson, hashLookupJson, now, manifestDoc, repositoriesJson, pc,
                  exitCode, prev, runs >>
  /\ UNCHANGED procVars
  /\ UNCHANGED callVars
  /\ UNCHANGED stepVars
  /\ UNCHANGED workflowVars

\* The process ending with exit code 0 whatever happened.
ProcessExitSuccess(code) ==
  /\ pc' = "idle"
  /\ exitCode' = 0
  /\ variant' = "none"
  /\ forceHash' = FALSE
  /\ manifest' = <<>>
  /\ additionalRepos' = <<>>
  /\ existingCache' = <<>>
  /\ mods' = <<>>
  /\ idx' = 1
  /\ calls' = <<>>

\* The process ends: its memory is gone.
ProcessExit(code) ==
  /\ pc' = "idle"
  /\ exitCode' = code
  /\ variant' = "none"
  /\ forceHash' = FALSE
  /\ manifest' = <<>>
  /\ additionalRepos' = <<>>
  /\ existingCache' = <<>>
  /\ mods' = <<>>
  /\ idx' = 1
  /\ calls' = <<>>

\* The manifest loop passing over the entry that follows the one just handled.
AfterManifestSkipsNext(m, i) ==
  IF i + 1 <= Len(m) THEN [pc |-> "manifest", idx |-> i + 1] ELSE [pc |-> "additional", idx |-> 1]

\* Where the run is once the manifest loop (the additional loop) reaches entry i.
AfterManifest(m, i) ==
  IF i <= Len(m) THEN [pc |-> "manifest", idx |-> i] ELSE [pc |-> "additional", idx |-> 1]
AfterAdditional(a, i) ==
  IF i <= Len(a) THEN [pc |-> "additional", idx |-> i] ELSE [pc |-> "write", idx |-> 1]

\* main up to the loops: fetchModManifest, loadAdditionalRepositories,
\* loadExistingCache.  A manifest that cannot be fetched or parsed rejects, main
\* catches and exits 1.
StartRun ==
  /\ pc = "idle"
  /\ runs < MaxRuns
  /\ runs' = runs + 1
  /\ \E v \in {"hashes", "update"}, f \in BOOLEAN, fetched \in BOOLEAN :
        /\ v = "update" => ~f
        /\ IF fetched
           THEN /\ variant' = v
                /\ forceHash' = f
                /\ manifest' = manifestDoc
                /\ additionalRepos' = loadAdditionalRepositories(repositoriesJson)
                /\ existingCache' = modsJson
                /\ mods' = <<>>
                /\ calls' = <<>>
                /\ idx' = 1
                /\ pc' = AfterManifest(manifestDoc, 1).pc
                /\ exitCode' = NoExit
           ELSE ProcessExit(1)
  /\ UNCHANGED << modsJson, hashLookupJson, prev >>
  /\ UNCHANGED worldVars
  /\ UNCHANGED callVars
  /\ UNCHANGED stepVars
  /\ UNCHANGED workflowVars

\* What one descriptor's handling is logged as.
CallRecord(source, parsed, res, pushed) ==
  [source_location |-> source, parsed |-> parsed, requested |-> res.requested,
   api |-> res.api, failing |-> res.failing, existing |-> res.existing,
   thrown |-> res.thrown, value |-> res.value, downloads |-> res.downloads,
   releases |-> res.releases, pushed |-> pushed]

NoResolve ==
  [requested |-> FALSE, api |-> ApiOk, failing |-> {}, existing |-> <<>>, thrown |-> FALSE,
   value |-> <<>>, downloads |-> <<>>, releases |-> <<>>, stop |-> FALSE]

Resolve(v, source, cache, force, t, releases, api, failing) ==
  IF v = "hashes" THEN ResolveWithHashes(source, cache, force, t, releases, api, failing)
  ELSE ResolveUpdate(source, cache, releases, api, failing)

ModRecord(v, name, source, releases, provenance, t) ==
  IF v = "hashes" THEN ModRecordWithHashes(name, source, releases, provenance, t)
  ELSE ModRecordUpdate(name, source, releases, provenance, t)

Range(seq) == {seq[k] : k \in 1..Len(seq)}

\* The answers the outside world can give while one descriptor is resolved: the
\* host's answer to the release-list request (if one is made) and, when it
\* succeeds, which of the downloads that follow fail.
Answers(v, source, cache, force, t, releases) ==
  LET quiet == Resolve(v, source, cache, force, t, releases, ApiOk, {})
  IN IF ~quiet.requested
     THEN {[api |-> ApiOk, failing |-> {}]}
     ELSE {[api |-> a, failing |-> {}] : a \in ApiOutcomes \ {ApiOk}} \cup
          {[api |-> ApiOk, failing |-> F] : F \in SUBSET Range(quiet.downloads)}

\* The end of the inner loop of the author group entry i belongs to.
NextGroup(m, i) ==
  LET later == {j \in (i + 1)..Len(m) : m[j].author # m[i].author}
  IN IF later = {} THEN Len(m) + 1 ELSE CHOOSE j \in later : \A k \in later : j <= k

\* One iteration of the manifest loop (with-hashes 224-304, update 310-355).
ProcessManifestEntry ==
  /\ pc = "manifest"
  /\ LET entry == manifest[idx]
         source == Get(entry, "sourceLocation")
     IN IF source = Undefined
        THEN \* parseGitHubUrl(undefined): TypeError, caught by main
             ProcessExit(1)
        ELSE IF parseGitHubUrl(source) = <<>>
        THEN /\ mods' = Append(mods, ModRecord(variant, entry.name, source, <<>>, "manifest", now))
             /\ calls' = Append(calls, CallRecord(source, FALSE, NoResolve, TRUE))
             /\ idx' = AfterManifest(manifest, idx + 1).idx
             /\ pc' = AfterManifest(manifest, idx + 1).pc
             /\ UNCHANGED << exitCode, variant, forceHash, manifest, additionalRepos, existingCache >>
        ELSE \E ans \in Answers(variant, source, existingCache, forceHash, now,
                                    HostList(source, host[source])) :
             LET res == Resolve(variant, source, existingCache, forceHash, now,
                                HostList(source, host[source]), ans.api, ans.failing)
             IN IF res.stop
                THEN /\ calls' = Append(calls, CallRecord(source, TRUE, res, FALSE))
                     /\ idx' = AfterManifest(manifest, NextGroup(manifest, idx)).idx
                     /\ pc' = AfterManifest(manifest, NextGroup(manifest, idx)).pc
                     /\ UNCHANGED << mods, exitCode, variant, forceHash, manifest,
                                     additionalRepos, existingCache >>
                ELSE /\ mods' = Append(mods, ModRecord(variant, entry.name, source,
                                                       res.releases, "manifest", now))
                     /\ calls' = Append(calls, CallRecord(source, TRUE, res, TRUE))
                     /\ idx' = AfterManifest(manifest, idx + 1).idx
                     /\ pc' = AfterManifest(manifest, idx + 1).pc
                     /\ UNCHANGED << exitCode, variant, forceHash, manifest,
                                     additionalRepos, existingCache >>
  /\ UNCHANGED << modsJson, hashLookupJson, prev, runs >>
  /\ UNCHANGED worldVars
  /\ UNCHANGED callVars
  /\ UNCHANGED stepVars
  /\ UNCHANGED workflowVars

\* The key of an additional repository that holds its reference:
\* repo.repository (with-hashes 313), repo.url (update 364).
ReferenceOf(v, repo) == IF v = "hashes" THEN Get(repo, "repository") ELSE Get(repo, "url")

\* repo.name (with-hashes 368), repo.name || `${owner}/${repo}` (update 379)
AdditionalName(v, repo, source) ==
  IF v = "update" /\ ~Truthy(Get(repo, "name")) THEN RepoKey(source) ELSE Get(repo, "name")

\* One iteration of the loop over the additional repositories
\* (with-hashes 309-386, update 360-403); with no repository left, the loop ends.
ProcessAdditional ==
  /\ pc = "additional"
  /\ LET keep == UNCHANGED << exitCode, variant, forceHash, manifest, additionalRepos, existingCache >>
     IN
     IF idx > Len(additionalRepos)
     THEN /\ pc' = "write"
          /\ UNCHANGED << mods, idx, calls >>
          /\ keep
     ELSE LET repo == additionalRepos[idx]
              source == ReferenceOf(variant, repo)
              next == AfterAdditional(additionalRepos, idx + 1)
          IN IF source = Undefined
             THEN \* parseGitHubUrl(undefined): TypeError, caught by main
                  ProcessExit(1)
             ELSE IF parseGitHubUrl(source) = <<>>
             THEN \* continue
                  /\ calls' = Append(calls, CallRecord(source, FALSE, NoResolve, FALSE))
                  /\ idx' = next.idx /\ pc' = next.pc
                  /\ UNCHANGED mods
                  /\ keep
             ELSE \E ans \in Answers(variant, source, existingCache, forceHash, now,
                                    HostList(source, host[source])) :
                  LET res == Resolve(variant, source, existingCache, forceHash, now,
                                     HostList(source, host[source]), ans.api, ans.failing)
                      existingMod == ExistingMod(existingCache, source)
                      record == ModRecord(variant, AdditionalName(variant, repo, source), source,
                                          res.releases, "additional", now)
                  IN /\ keep
                     /\ IF res.thrown /\ variant = "hashes" /\ res.stop
                        THEN \* break
                             /\ calls' = Append(calls, CallRecord(source, TRUE, res, FALSE))
                             /\ pc' = "write" /\ idx' = 1
                             /\ UNCHANGED mods
                        ELSE IF res.thrown /\ variant = "update"
                        THEN \* update 395-402: the cached record itself, if there is one
                             /\ calls' = Append(calls, CallRecord(source, TRUE, res, existingMod # <<>>))
                             /\ mods' = mods \o existingMod
                             /\ idx' = next.idx /\ pc' = next.pc
                        ELSE /\ calls' = Append(calls, CallRecord(source, TRUE, res, TRUE))
                             /\ mods' = Append(mods, record)
                             /\ idx' = next.idx /\ pc' = next.pc
  /\ UNCHANGED << modsJson, hashLookupJson, prev, runs >>
  /\ UNCHANGED worldVars
  /\ UNCHANGED callVars
  /\ UNCHANGED stepVars
  /\ UNCHANGED workflowVars

\* Whether a logged call was answered with the rate-limit error.
RateLimited(call) == call.requested /\ isRateLimitError(call.api)

\* The first logged call answered with the rate-limit error, 0 when there is none.
FirstRateLimited(log) ==
  LET hit == {k \in 1..Len(log) : RateLimited(log[k])}
  IN IF hit = {} THEN 0 ELSE CHOOSE k \in hit : \A j \in hit : k <= j

\* main after the loops (with-hashes 425-435, update 436-448): both files are
\* written from the accumulated list and the process ends with exit code 0.
WriteFiles ==
  /\ pc = "write"
  /\ modsJson' = mods
  /\ hashLookupJson' = IF variant = "hashes" THEN createHashLookupTable(mods)
                       ELSE generateHashLookup(mods)
  /\ ProcessExit(0)
  /\ prev' = [variant |-> variant, host |-> host, rateLimitedAt |-> FirstRateLimited(calls),
              requestFailed |-> \E k \in 1..Len(calls) : calls[k].api # ApiOk]
  /\ UNCHANGED runs
  /\ UNCHANGED worldVars
  /\ UNCHANGED callVars
  /\ UNCHANGED stepVars
  /\ UNCHANGED workflowVars

Next == Tick \/ Publish \/ StartRun \/ ProcessManifestEntry \/ ProcessAdditional \/ WriteFiles

Spec == Init /\ [][Next]_vars

-----------------------------------------------------------------------------
(* One function called on its own: a release collector on a release list the *)
(* host answers with, then the index built from the mod list it yields.      *)

\* Bound: the number of releases the host lists in such a call
MaxListed == 2

TagLists == UNION { [1..n -> Tags] : n \in 0..MaxListed }

\* A release list an earlier with-hashes run wrote for Repo1: v1 hashed, and v2
\* without a hash because its download failed.
PriorList ==
  ReleaseDataWithHashes(HostList(Repo1, <<"v1", "v2">>), TRUE, <<>>, FALSE, {AssetUrl(Repo1, "v2")})

\* The arguments: the tags of the releases the host lists for Repo1, the cached
\* release list, the --force-hash flag, the downloads that fail.
Givens ==
  [fn : {"call"}, tags : TagLists, existingReleases : {<<>>, PriorList}, force : BOOLEAN,
   failing : {{}, {AssetUrl(Repo1, "v1")}}]

\* The release lists of the two repositories in such a call.
GivenLists == [u \in GitHubUrls |->
                 IF u = Repo1 THEN HostList(Repo1, given.tags) ELSE HostList(Repo2, SteadyTags)]

CallInit ==
  /\ modsJson = <<>>
  /\ hashLookupJson = <<>>
  /\ host = [u \in GitHubUrls |-> SteadyTags]
  /\ now = 0
  /\ manifestDoc = <<Alpha, Beta>>
  /\ repositoriesJson = NoRepositoriesFile
  /\ pc = "idle"
  /\ variant = "none"
  /\ forceHash = FALSE
  /\ manifest = <<>>
  /\ additionalRepos = <<>>
  /\ existingCache = <<>>
  /\ mods = <<>>
  /\ idx = 1
  /\ exitCode = NoExit
  /\ calls = <<>>
  /\ prev = NoPrev
  /\ runs = 0
  /\ given \in Givens
  /\ returned = <<>>
  /\ op = NoSteps
  /\ workflow = NoWorkflow

\* What a collector's call is recorded as: the host's answer, the release list
\* returned for Repo1, the downloads made for it, the mod list these releases
\* are put in, and the index (once it is built).
Returned(fn, api, thrown, releases, downloads, ms) ==
  << [fn |-> fn, api |-> api, thrown |-> thrown, releases |-> releases,
      downloads |-> downloads, mods |-> ms, indexed |-> FALSE, index |-> <<>>] >>

CallGetAllReleasesWithHashes ==
  /\ given # NoCall /\ returned = <<>>
  /\ \E api \in ApiOutcomes :
        LET r == getAllReleasesWithHashes(GivenLists[Repo1], TRUE, given.existingReleases,
                                          given.force, api, given.failing)
            other == getAllReleasesWithHashes(GivenLists[Repo2], TRUE, <<>>, given.force,
                                              ApiOk, {})
        IN returned' = Returned("getAllReleasesWithHashes", api, r.thrown, r.value, r.downloads,
                                << ModRecordWithHashes("Alpha", Repo1, r.value, "manifest", now),
                                   ModRecordWithHashes("Beta", Repo2, other.value, "manifest", now) >>)
  /\ UNCHANGED << given, runVars, procVars, worldVars, stepVars, workflowVars >>

CallGetAllReleases ==
  /\ given # NoCall /\ returned = <<>>
  /\ \E api \in ApiOutcomes :
        LET r == getAllReleases(GivenLists[Repo1], given.existingReleases, api, given.failing)
            other == getAllReleases(GivenLists[Repo2], <<>>, ApiOk, {})
        IN returned' = Returned("getAllReleases", api, r.thrown, r.value, r.downloads,
                                << ModRecordUpdate("Alpha", Repo1, r.value, "manifest", now),
                                   ModRecordUpdate("Beta", Repo2, other.value, "manifest", now) >>)
  /\ UNCHANGED << given, runVars, procVars, worldVars, stepVars, workflowVars >>

\* collectModInfo of part_003 on a manifest with the one entry Alpha, or with
\* Gamma, Alpha and the additional repository Extra.
CallCollectModInfoStandard ==
  /\ given # NoCall /\ returned = <<>>
  /\ \E api \in ApiOutcomes, in \in {i \in Inputs : Beta \notin Range(i.manifest)} \cup
                                    {[manifest |-> <<Alpha>>, file |-> NoRepositoriesFile]} :
        returned' = Returned("collectModInfo", api, FALSE,
                             getAllReleasesStandard(GivenLists[Repo1], api), <<>>,
                             collectModInfoStandard(in.manifest,
                                                    loadAdditionalRepositories(in.file),
                                                    GivenLists, api, now))
  /\ UNCHANGED << given, runVars, procVars, worldVars, stepVars, workflowVars >>

CallCreateHashLookupTable ==
  /\ returned # <<>>
  /\ returned[1].fn = "getAllReleasesWithHashes" /\ ~returned[1].indexed
  /\ returned' = << [returned[1] EXCEPT !.indexed = TRUE,
                                        !.index = createHashLookupTable(returned[1].mods)] >>
  /\ UNCHANGED << given, runVars, procVars, worldVars, stepVars, workflowVars >>

CallGenerateHashLookup ==
  /\ returned # <<>>
  /\ returned[1].fn = "getAllReleases" /\ ~returned[1].indexed
  /\ returned' = << [returned[1] EXCEPT !.indexed = TRUE,
                                        !.index = generateHashLookup(returned[1].mods)] >>
  /\ UNCHANGED << given, runVars, procVars, worldVars, stepVars, workflowVars >>

CallNext ==
  \/ CallGetAllReleasesWithHashes
  \/ CallGetAllReleases
  \/ CallCollectModInfoStandard
  \/ CallCreateHashLookupTable
  \/ CallGenerateHashLookup

CallSpec == CallInit /\ [][CallNext]_vars

-----------------------------------------------------------------------------
(* One run followed from one awaited operation to the next.  An operation    *)
(* begins, is in flight, and settles; the code after an await runs once the  *)
(* operation it awaits has settled.                                          *)

ManifestUrl ==
  "https://raw.githubusercontent.com/resonite-modding-group/resonite-mod-manifest/main/manifest.json"

\* The milliseconds waited after a download (with-hashes 103, update 217) and
\* after a release collector returned (with-hashes 269 and 354, update 326 and 394).
DownloadDelay == 1000
CollectorDelay == 500

\* What is remembered of the last thing that happened: an operation that began
\* or settled, or a timer that elapsed.
Event(ev, kind, target, ok, ms) == [ev |-> ev, kind |-> kind, target |-> target, ok |-> ok, ms |-> ms]
NoEvent == Event("none", "none", "", TRUE, 0)

\* A prior cache on disk: Alpha as a with-hashes run wrote it, v2 without a hash.
PriorCache == << ModRecordWithHashes("Alpha", Repo1, PriorList, "manifest", 0) >>

\* The descriptor the loop is at: its reference and its name.
CurrentSource ==
  IF op.loop = "manifest" THEN manifest[idx].sourceLocation
  ELSE ReferenceOf(variant, additionalRepos[idx])
CurrentName ==
  IF op.loop = "manifest" THEN manifest[idx].name
  ELSE AdditionalName(variant, additionalRepos[idx], CurrentSource)

\* The operation awaited at each position of the program.
Operation ==
  CASE pc = "fetchManifest" -> [kind |-> "fetch", target |-> ManifestUrl]
    [] pc = "loadRepositories" -> [kind |-> "readFile", target |-> "repositories.json"]
    [] pc = "loadCache" -> [kind |-> "readFile", target |-> "cache/mods.json"]
    [] pc = "list" -> [kind |-> "listReleases", target |-> CurrentSource]
    [] pc = "download" -> [kind |-> "download", target |-> op.downloads[op.k]]
    [] pc = "write" -> [kind |-> "mkdir", target |-> "cache"]
    [] pc = "writeMods" -> [kind |-> "writeFile", target |-> "cache/mods.json"]
    [] pc = "writeLookup" -> [kind |-> "writeFile", target |-> "cache/hash-lookup.json"]

Awaiting == {"fetchManifest", "loadRepositories", "loadCache", "list", "download",
             "write", "writeMods", "writeLookup"}

\* An awaited operation settles without leaving the set of operations in flight.
SettleLeavesPending(inflight, o) == inflight

\* An awaited operation settles: it is no longer in flight.
Settle(inflight, o) == inflight \ {o}

\* A delay that is waited only after a download that gave a hash.
DelayedAfterSuccessOnly(url, failing) == downloadAndHash(url, failing) # <<>>

\* Whether the delay is waited after downloadAndHash returned: always, since
\* the await of the timer follows the call unconditionally and downloadAndHash
\* never rejects (with-hashes 102-103, update 215-217).
DelayedAfter(url, failing) == TRUE

StepInit ==
  /\ modsJson \in {<<>>, PriorCache}
  /\ host \in {h \in [GitHubUrls -> HostTags] : \A u \in GitHubUrls \ Changing : h[u] = SteadyTags}
  /\ now = 0
  /\ \E in \in Inputs : manifestDoc = in.manifest /\ repositoriesJson = in.file
  /\ pc = "fetchManifest"
  /\ variant \in {"hashes", "update"}
  /\ hashLookupJson = IF variant = "hashes" THEN createHashLookupTable(modsJson)
                      ELSE generateHashLookup(modsJson)
  /\ forceHash = FALSE
  /\ manifest = <<>>
  /\ additionalRepos = <<>>
  /\ existingCache = <<>>
  /\ mods = <<>>
  /\ idx = 1
  /\ exitCode = NoExit
  /\ calls = <<>>
  /\ prev = NoPrev
  /\ runs = 1
  /\ given = NoCall
  /\ returned = <<>>
  /\ op = [waiting |-> FALSE, inflight |-> {}, last |-> NoEvent, loop |-> "manifest",
           parsed |-> TRUE, api |-> ApiOk, downloads |-> <<>>, k |-> 1, failing |-> {},
           written |-> {}, manifestFailed |-> FALSE]
  /\ workflow = NoWorkflow

\* What the steps of a run leave alone.
StepFrame == UNCHANGED << host, now, manifestDoc, repositoriesJson, variant, forceHash, calls,
                          prev, runs, given, returned, workflow >>

\* The operation at the current position is called: it begins and the program
\* waits for it.
StepBegin ==
  /\ pc \in Awaiting
  /\ ~op.waiting
  /\ op' = [op EXCEPT !.waiting = TRUE,
                      !.inflight = op.inflight \cup {Operation},
                      !.last = Event("begin", Operation.kind, Operation.target, TRUE, 0)]
  /\ UNCHANGED << modsJson, hashLookupJson, pc, manifest, additionalRepos, existingCache, mods,
                  idx, exitCode >>
  /\ StepFrame

\* What settling the awaited operation does to op.
Settled(ok) ==
  [op EXCEPT !.waiting = FALSE,
             !.inflight = Settle(op.inflight, Operation),
             !.last = Event("end", Operation.kind, Operation.target, ok, 0)]

\* fetchModManifest (with-hashes 165-171): fetch and response.json(); when
\* either rejects, main catches and the process exits with code 1 (463-466).
StepManifestFetched ==
  /\ pc = "fetchManifest" /\ op.waiting
  /\ \E ok \in BOOLEAN :
        IF ok
        THEN /\ manifest' = manifestDoc
             /\ pc' = "loadRepositories"
             /\ op' = Settled(TRUE)
             /\ UNCHANGED exitCode
        ELSE /\ pc' = "done"
             /\ exitCode' = 1
             /\ op' = [Settled(FALSE) EXCEPT !.manifestFailed = TRUE]
             /\ UNCHANGED manifest
  /\ UNCHANGED << modsJson, hashLookupJson, additionalRepos, existingCache, mods, idx >>
  /\ StepFrame

\* loadAdditionalRepositories (with-hashes 174-184)
StepRepositoriesLoaded ==
  /\ pc = "loadRepositories" /\ op.waiting
  /\ additionalRepos' = loadAdditionalRepositories(repositoriesJson)
  /\ pc' = "loadCache"
  /\ op' = Settled(repositoriesJson.readable)
  /\ UNCHANGED << modsJson, hashLookupJson, manifest, existingCache, mods, idx, exitCode >>
  /\ StepFrame

\* loadExistingCache (with-hashes 187-196), then the loops begin (220).
StepCacheLoaded ==
  /\ pc = "loadCache" /\ op.waiting
  /\ existingCache' = modsJson
  /\ pc' = AfterManifest(manifest, 1).pc
  /\ idx' = 1
  /\ op' = [Settled(modsJson # <<>>) EXCEPT
              !.loop = IF AfterManifest(manifest, 1).pc = "manifest" THEN "manifest" ELSE "additional"]
  /\ UNCHANGED << modsJson, hashLookupJson, manifest, additionalRepos, mods, exitCode >>
  /\ StepFrame

\* What resolving the current descriptor gives for an answer of the host and a
\* set of failing downloads.
Resolved(api, failing) ==
  Resolve(variant, CurrentSource, existingCache, forceHash, now,
          HostList(CurrentSource, host[CurrentSource]), api, failing)

\* The head of a loop iteration, up to its first await (with-hashes 224-259 and
\* 309-345, update 360-376).
StepEnterEntry ==
  /\ pc \in {"manifest", "additional"}
  /\ IF op.loop = "additional" /\ idx > Len(additionalRepos)
     THEN /\ pc' = "write"
          /\ UNCHANGED << op, idx, exitCode >>
     ELSE IF CurrentSource = Undefined
     THEN \* parseGitHubUrl(undefined): TypeError, caught by main
          /\ pc' = "done" /\ exitCode' = 1
          /\ UNCHANGED << op, idx >>
     ELSE IF parseGitHubUrl(CurrentSource) = <<>>
     THEN IF op.loop = "manifest"
          THEN /\ pc' = "push"
               /\ op' = [op EXCEPT !.parsed = FALSE]
               /\ UNCHANGED << idx, exitCode >>
          ELSE \* continue
               /\ pc' = AfterAdditional(additionalRepos, idx + 1).pc
               /\ idx' = AfterAdditional(additionalRepos, idx + 1).idx
               /\ UNCHANGED << op, exitCode >>
     ELSE /\ pc' = IF Resolved(ApiOk, {}).requested THEN "list" ELSE "push"
          /\ op' = [op EXCEPT !.parsed = TRUE, !.api = ApiOk, !.failing = {},
                              !.downloads = <<>>, !.k = 1]
          /\ UNCHANGED << idx, exitCode >>
  /\ UNCHANGED << modsJson, hashLookupJson, manifest, additionalRepos, existingCache, mods >>
  /\ StepFrame

\* octokit.paginate settles (with-hashes 61-75): on an error the collector
\* returns; else its loop over the releases starts.
StepListed ==
  /\ pc = "list" /\ op.waiting
  /\ \E api \in ApiOutcomes :
        LET downloads == Resolved(ApiOk, {}).downloads
        IN /\ op' = [Settled(api = ApiOk) EXCEPT
                       !.api = api,
                       !.downloads = IF api = ApiOk THEN downloads ELSE <<>>,
                       !.k = 1]
           /\ pc' = IF api = ApiOk /\ downloads # <<>> THEN "download"
                    ELSE IF Resolved(api, {}).thrown THEN "push"
                    ELSE "resolved"
  /\ UNCHANGED << modsJson, hashLookupJson, manifest, additionalRepos, existingCache, mods,
                  idx, exitCode >>
  /\ StepFrame

\* Where the collector is once its loop reaches download k: the loop goes on,
\* or the collector returns.
AfterDownload(k) == IF k <= Len(op.downloads) THEN "download" ELSE "resolved"

\* downloadAndHash returns (with-hashes 19-46): a hash, or null when the
\* download fails or the size ceiling stops it.
StepDownloaded ==
  /\ pc = "download" /\ op.waiting
  /\ \E ok \in BOOLEAN :
        LET url == op.downloads[op.k]
            failing == IF ok THEN op.failing ELSE op.failing \cup {url}
        IN /\ op' = [Settled(downloadAndHash(url, failing) # <<>>) EXCEPT
                       !.failing = failing, !.k = op.k + 1]
           /\ pc' = IF DelayedAfter(url, failing) THEN "downloadDelay"
                    ELSE AfterDownload(op.k + 1)
  /\ UNCHANGED << modsJson, hashLookupJson, manifest, additionalRepos, existingCache, mods,
                  idx, exitCode >>
  /\ StepFrame

\* The update script's loop over the additional repositories appends the
\* record before it waits (update 378-394); the other loops wait first
\* (with-hashes 269 and 354, update 326).
PushFirst == variant = "update" /\ op.loop = "additional"

\* A timer elapses: the delay after a download (with-hashes 103, update 217),
\* or the delay after the collector returned.
StepDelay ==
  /\ pc \in {"downloadDelay", "afterPush"} \/ (pc = "resolved" /\ ~PushFirst)
  /\ IF pc = "downloadDelay"
     THEN /\ op' = [op EXCEPT !.last = Event("timer", "delay", "", TRUE, DownloadDelay)]
          /\ pc' = AfterDownload(op.k)
          /\ UNCHANGED idx
     ELSE IF pc = "resolved"
     THEN /\ op' = [op EXCEPT !.last = Event("timer", "delay", "", TRUE, CollectorDelay)]
          /\ pc' = "push"
          /\ UNCHANGED idx
     ELSE /\ op' = [op EXCEPT !.last = Event("timer", "delay", "", TRUE, CollectorDelay)]
          /\ pc' = AfterAdditional(additionalRepos, idx + 1).pc
          /\ idx' = AfterAdditional(additionalRepos, idx + 1).idx
  /\ UNCHANGED << modsJson, hashLookupJson, manifest, additionalRepos, existingCache, mods,
                  exitCode >>
  /\ StepFrame

\* The rest of a loop iteration (with-hashes 270-303 and 355-385, update
\* 327-355 and 378-402): the record is appended, or the loop is left.
StepPush ==
  /\ pc = "push" \/ (pc = "resolved" /\ PushFirst)
  /\ LET res == Resolved(op.api, op.failing)
         releases == IF op.parsed THEN res.releases ELSE <<>>
         record == ModRecord(variant, CurrentName, CurrentSource, releases, op.loop, now)
         existingMod == ExistingMod(existingCache, CurrentSource)
         next == IF op.loop = "manifest" THEN AfterManifest(manifest, idx + 1)
                 ELSE AfterAdditional(additionalRepos, idx + 1)
     IN IF op.parsed /\ res.thrown /\ res.stop /\ (op.loop = "manifest" \/ variant = "hashes")
        THEN \* break
             /\ UNCHANGED mods
             /\ IF op.loop = "manifest"
                THEN /\ pc' = AfterManifest(manifest, NextGroup(manifest, idx)).pc
                     /\ idx' = AfterManifest(manifest, NextGroup(manifest, idx)).idx
                ELSE /\ pc' = "write" /\ idx' = 1
        ELSE IF op.parsed /\ res.thrown /\ PushFirst
        THEN \* update 395-402: the cached record itself, if there is one
             /\ mods' = mods \o existingMod
             /\ pc' = next.pc
             /\ idx' = next.idx
        ELSE /\ mods' = Append(mods, record)
             /\ pc' = IF pc = "resolved" THEN "afterPush" ELSE next.pc
             /\ idx' = IF pc = "resolved" THEN idx ELSE next.idx
  /\ op' = [op EXCEPT !.loop = IF pc' = "manifest" THEN "manifest" ELSE "additional"]
  /\ UNCHANGED << modsJson, hashLookupJson, manifest, additionalRepos, existingCache, exitCode >>
  /\ StepFrame

\* main after the loops (with-hashes 425-435, update 436-448): mkdir, then the
\* two writeFile calls, each awaited; when one rejects, main catches and the
\* process exits with code 1; after the last one the process ends with code 0.
StepFileWritten ==
  /\ pc \in {"write", "writeMods", "writeLookup"} /\ op.waiting
  /\ \E ok \in BOOLEAN :
        IF ~ok
        THEN /\ pc' = "done" /\ exitCode' = 1
             /\ op' = Settled(FALSE)
             /\ UNCHANGED << modsJson, hashLookupJson >>
        ELSE /\ op' = [Settled(TRUE) EXCEPT
                         !.written = IF pc = "write" THEN op.written
                                     ELSE op.written \cup {Operation.target}]
             /\ modsJson' = IF pc = "writeMods" THEN mods ELSE modsJson
             /\ hashLookupJson' = IF pc # "writeLookup" THEN hashLookupJson
                                  ELSE IF variant = "hashes" THEN createHashLookupTable(mods)
                                  ELSE generateHashLookup(mods)
             /\ pc' = CASE pc = "write" -> "writeMods"
                         [] pc = "writeMods" -> "writeLookup"
                         [] pc = "writeLookup" -> "done"
             /\ exitCode' = IF pc = "writeLookup" THEN 0 ELSE exitCode
  /\ UNCHANGED << manifest, additionalRepos, existingCache, mods, idx >>
  /\ StepFrame

StepNext ==
  \/ StepBegin
  \/ StepManifestFetched
  \/ StepRepositoriesLoaded
  \/ StepCacheLoaded
  \/ StepEnterEntry
  \/ StepListed
  \/ StepDownloaded
  \/ StepDelay
  \/ StepPush
  \/ StepFileWritten

StepSpec == StepInit /\ [][StepNext]_vars

-----------------------------------------------------------------------------
(* Runs that follow each other at a fixed interval, with a record of when    *)
(* each repository's release list was last received from the host.           *)

\* Bound: the days between two runs
RefreshInterval == 4

NeverFetched == 0 - 1

\* The inputs with which a with-hashes run has no additional repository.
ManifestOnly == {in \in Inputs : loadAdditionalRepositories(in.file) = <<>>}

\* The cache a with-hashes run writes on day 0 from manifest m, without a prior
\* cache, when the host answers every request with the lists h and every
\* download succeeds.
FirstCache(m, h) ==
  [k \in 1..Len(m) |->
     LET source == m[k].sourceLocation
     IN ModRecordWithHashes(m[k].name, source,
          IF parseGitHubUrl(source) = <<>> THEN <<>>
          ELSE ResolveWithHashes(source, <<>>, FALSE, 0, HostList(source, h[source]), ApiOk, {}).releases,
          "manifest", 0)]

\* What is remembered of the last run that wrote the cache, and of when each
\* repository's release list was last received.
Remembered(v, h, log, fetchedAt, t) ==
  [variant |-> v, host |-> h, rateLimitedAt |-> FirstRateLimited(log),
   requestFailed |-> \E k \in 1..Len(log) : log[k].api # ApiOk,
   fetchedAt |-> [u \in GitHubUrls |->
                    IF \E k \in 1..Len(log) :
                          log[k].source_location = u /\ log[k].requested /\ log[k].api = ApiOk
                    THEN t ELSE fetchedAt[u]],
   failed |-> {u \in GitHubUrls :
                 \E k \in 1..Len(log) :
                    log[k].source_location = u /\ log[k].requested /\ log[k].api # ApiOk}]

RefreshInit ==
  /\ host \in {h \in [GitHubUrls -> HostTags] : \A u \in GitHubUrls \ Changing : h[u] = SteadyTags}
  /\ now = 0
  /\ \E in \in ManifestOnly : manifestDoc = in.manifest /\ repositoriesJson = in.file
  /\ \/ /\ modsJson = <<>>
        /\ prev = [variant |-> "none", host |-> host, rateLimitedAt |-> 0, requestFailed |-> FALSE,
                   fetchedAt |-> [u \in GitHubUrls |-> NeverFetched], failed |-> {}]
     \/ /\ modsJson = FirstCache(manifestDoc, host)
        /\ prev = [variant |-> "hashes", host |-> host, rateLimitedAt |-> 0, requestFailed |-> FALSE,
                   fetchedAt |-> [u \in GitHubUrls |->
                                    IF \E k \in 1..Len(manifestDoc) : manifestDoc[k].sourceLocation = u
                                    THEN 0 ELSE NeverFetched],
                   failed |-> {}]
  /\ hashLookupJson = createHashLookupTable(modsJson)
  /\ pc = "idle"
  /\ variant = "none"
  /\ forceHash = FALSE
  /\ manifest = <<>>
  /\ additionalRepos = <<>>
  /\ existingCache = <<>>
  /\ mods = <<>>
  /\ idx = 1
  /\ exitCode = NoExit
  /\ calls = <<>>
  /\ runs = 0
  /\ given = NoCall
  /\ returned = <<>>
  /\ op = NoSteps
  /\ workflow = NoWorkflow

\* The interval passes: the schedule starts the next run one interval after
\* the last one.
RefreshTick ==
  /\ pc = "idle"
  /\ now < RefreshInterval * (runs + 1)
  /\ now' = now + RefreshInterval
  /\ UNCHANGED << modsJson, hashLookupJson, host, manifestDoc, repositoriesJson, pc,
                  exitCode, prev, runs >>
  /\ UNCHANGED procVars
  /\ UNCHANGED callVars
  /\ UNCHANGED stepVars
  /\ UNCHANGED workflowVars

\* main after the loops (with-hashes 425-435, update 436-448), as WriteFiles,
\* keeping the record of the requests of the run.
RefreshWriteFiles ==
  /\ pc = "write"
  /\ modsJson' = mods
  /\ hashLookupJson' = IF variant = "hashes" THEN createHashLookupTable(mods)
                       ELSE generateHashLookup(mods)
  /\ ProcessExit(0)
  /\ prev' = Remembered(variant, host, calls, prev.fetchedAt, now)
  /\ UNCHANGED runs
  /\ UNCHANGED worldVars
  /\ UNCHANGED callVars
  /\ UNCHANGED stepVars
  /\ UNCHANGED workflowVars

RefreshNext ==
  \/ RefreshTick
  \/ Publish
  \/ StartRun
  \/ ProcessManifestEntry
  \/ ProcessAdditional
  \/ RefreshWriteFiles

RefreshSpec == RefreshInit /\ [][RefreshNext]_vars

-----------------------------------------------------------------------------
(* The scheduled workflow "Update MOD Cache" (unnamed/part_000, lines 1-94): *)
(* each firing checks the repository out, runs the update script, and        *)
(* commits cache/ when git finds a difference to HEAD.  The update script    *)
(* compares no timestamps, so the clock only has to tell two firings apart:  *)
(* one unit of now stands for the time between two firings here.             *)

\* The files under cache/
CacheFiles(ms, index) == [mods |-> ms, lookup |-> index]

\* The cache the update script writes at clock reading 0 from manifest m,
\* without a prior cache, when the host answers every request with the lists h
\* and every download succeeds.
FirstCacheUpdate(m, h) ==
  [k \in 1..Len(m) |->
     LET source == m[k].sourceLocation
     IN ModRecordUpdate(m[k].name, source,
          IF parseGitHubUrl(source) = <<>> THEN <<>>
          ELSE ResolveUpdate(source, <<>>, HostList(source, h[source]), ApiOk, {}).releases,
          "manifest", 0)]

\* git diff --quiet HEAD -- cache/ (part_000 line 38): quiet when the tracked
\* files under cache/ are as in HEAD; files git does not track are not compared.
GitDiffQuiet(tracked, head, tree) == ~tracked \/ head = tree

WorkflowInit ==
  /\ host \in {h \in [GitHubUrls -> HostTags] : \A u \in GitHubUrls \ Changing : h[u] = SteadyTags}
  /\ now = 0
  /\ \E in \in ManifestOnly : manifestDoc = in.manifest /\ repositoriesJson = in.file
  /\ \E tracked \in BOOLEAN :
        /\ modsJson = IF tracked THEN FirstCacheUpdate(manifestDoc, host) ELSE <<>>
        /\ hashLookupJson = generateHashLookup(modsJson)
        /\ workflow = [phase |-> "idle", tracked |-> tracked,
                       head |-> CacheFiles(modsJson, hashLookupJson),
                       seen |-> host, started |-> 0, outcome |-> "none", commits |-> 0]
  /\ pc = "idle"
  /\ variant = "none"
  /\ forceHash = FALSE
  /\ manifest = <<>>
  /\ additionalRepos = <<>>
  /\ existingCache = <<>>
  /\ mods = <<>>
  /\ idx = 1
  /\ exitCode = NoExit
  /\ calls = <<>>
  /\ prev = NoPrev
  /\ runs = 0
  /\ given = NoCall
  /\ returned = <<>>
  /\ op = NoSteps

\* The schedule fires (part_000 lines 3-6) and the job checks the repository
\* out (16-19): the working tree holds the cache of HEAD, or none.
WorkflowCheckout ==
  /\ workflow.phase = "idle"
  /\ pc = "idle"
  /\ runs < MaxRuns
  /\ now' = now + 1
  /\ modsJson' = workflow.head.mods
  /\ hashLookupJson' = workflow.head.lookup
  /\ workflow' = [workflow EXCEPT !.phase = "checked out", !.started = runs]
  /\ UNCHANGED << host, manifestDoc, repositoriesJson, pc, exitCode, prev, runs >>
  /\ UNCHANGED procVars
  /\ UNCHANGED callVars
  /\ UNCHANGED stepVars

\* node scripts/update-mod-cache.js (part_000 lines 30-33): the update script
\* starts.
WorkflowUpdateCache ==
  /\ workflow.phase = "checked out"
  /\ runs = workflow.started
  /\ StartRun
  /\ variant' # "hashes"

\* The steps after the script (part_000 lines 35-94).  When the script exited
\* with a failure the job stops.  Else git compares cache/ with HEAD, and the
\* job commits and pushes when it differs.
WorkflowCheckForChanges ==
  /\ workflow.phase = "checked out"
  /\ pc = "idle"
  /\ runs > workflow.started
  /\ LET tree == CacheFiles(modsJson, hashLookupJson)
         quiet == GitDiffQuiet(workflow.tracked, workflow.head, tree)
     IN workflow' =
          IF exitCode # 0
          THEN [workflow EXCEPT !.phase = "idle", !.outcome = "failed", !.seen = host]
          ELSE IF quiet
          THEN [workflow EXCEPT !.phase = "idle", !.outcome = "no changes", !.seen = host]
          ELSE [workflow EXCEPT !.phase = "idle", !.outcome = "committed", !.seen = host,
                                !.head = tree, !.commits = workflow.commits + 1]
  /\ UNCHANGED << modsJson, hashLookupJson, pc, exitCode, prev, runs >>
  /\ UNCHANGED procVars
  /\ UNCHANGED worldVars
  /\ UNCHANGED callVars
  /\ UNCHANGED stepVars

WorkflowNext ==
  \/ WorkflowCheckout
  \/ Publish
  \/ WorkflowUpdateCache
  \/ ProcessManifestEntry
  \/ ProcessAdditional
  \/ WriteFiles
  \/ WorkflowCheckForChanges

WorkflowSpec == WorkflowInit /\ [][WorkflowNext]_vars

-----------------------------------------------------------------------------
(* Properties *)

\* The position in mods of the record pushed for logged call k.
RecordOf(k) == Cardinality({j \in 1..k : calls[j].pushed})

\* The record pushed for logged call k.
PushedFor(k) == mods[RecordOf(k)]

\* The prior-cache record of a source: the last one with that source_location.
CachedAt(source) ==
  LET hit == {k \in 1..Len(existingCache) : existingCache[k].source_location = source}
  IN IF hit = {} THEN 0 ELSE CHOOSE k \in hit : \A j \in hit : j <= k

\* The release list the prior cache holds for a source, empty when it holds none.
PriorReleases(source) ==
  IF CachedAt(source) = 0 THEN <<>> ELSE existingCache[CachedAt(source)].releases

\* The tags of the host's releases of a repository that carry a .dll asset.
DllTags(source) ==
  {r.tag_name : r \in {q \in Range(HostList(source, host[source])) :
                          \E a \in Range(q.assets) : a.name = "Mod.dll"}}

Versions(releases) == {releases[k].version : k \in 1..Len(releases)}

\* C1: in a run of either script, once a release-list request has been answered
\* with the rate-limit error, no later descriptor of the run causes a
\* release-list request or a download.
C1_NoRequestAfterRateLimit ==
  \A i, j \in 1..Len(calls) :
     (i < j /\ RateLimited(calls[i])) => (~calls[j].requested /\ calls[j].downloads = <<>>)

\* The host answers normally before call k and with the rate-limit error from
\* call k on.
RateLimitStartsAt(k) ==
  /\ RateLimited(calls[k])
  /\ \A j \in 1..Len(calls) :
        calls[j].requested => IF j < k THEN calls[j].api = ApiOk ELSE RateLimited(calls[j])

\* What the accumulated list holds when the rate limit started at call k.
PartialList(k) ==
  /\ \A j \in 1..(k - 1) :
        calls[j].parsed =>
          /\ calls[j].pushed
          /\ calls[j].requested =>
               Versions(PushedFor(j).releases) = DllTags(calls[j].source_location)
  /\ \A j \in k..Len(calls) :
        calls[j].pushed => PushedFor(j).releases = PriorReleases(calls[j].source_location)

\* C2: when the host starts answering with the rate-limit error at the k-th
\* descriptor of a with-hashes run, the run that reaches main's write step holds
\* the releases resolved in this run for every descriptor before k and, for
\* every record from k on, the list the prior cache held; it writes that list
\* to cache/mods.json, writes the lookup built from it, and exits with code 0.
C2_RateLimitWritesPartial ==
  [][ (pc = "write" /\ variant = "hashes") =>
        \A k \in 1..Len(calls) :
           RateLimitStartsAt(k) =>
             /\ PartialList(k)
             /\ exitCode' = 0
             /\ modsJson' = mods
             /\ DOMAIN hashLookupJson' = AllHashes(mods) ]_vars

\* A second run, after the freshness window, rate-limited at its second
\* descriptor, has written two records with releases and exited with 0.
C2_Witness ==
  /\ pc = "idle" /\ exitCode = 0 /\ runs = 2 /\ now > FreshnessWindow
  /\ prev.variant = "hashes" /\ prev.rateLimitedAt = 2
  /\ Len(modsJson) = 2
  /\ \A k \in 1..2 : modsJson[k].releases # <<>> /\ modsJson[k].last_updated = now

\* C3: getAllReleasesWithHashes, and getAllReleases of the update script, never
\* raise to their caller; when the release list cannot be obtained, for rate
\* limiting or for any other reason, they return the prior-cache release list
\* they were handed, unchanged (the empty list when there was none).
C3_NeverRaises ==
  \A k \in 1..Len(calls) :
     calls[k].requested =>
       /\ ~calls[k].thrown
       /\ calls[k].api # ApiOk => calls[k].value = PriorReleases(calls[k].source_location)

\* One run in which a request failed by rate limiting and another for a
\* different reason, each with a prior-cache list of two releases.
C3_Witness ==
  /\ variant = "hashes"
  /\ \E i, j \in 1..Len(calls) :
        /\ RateLimited(calls[i]) /\ Len(calls[i].value) = 2
        /\ calls[j].requested /\ calls[j].api = ApiServerError /\ Len(calls[j].value) = 2

\* The prior cache holds a record for the source, written at most seven days
\* ago, in which every release with a download URL carries a hash.
FreshAndComplete(source) ==
  /\ CachedAt(source) # 0
  /\ now - existingCache[CachedAt(source)].last_updated <= FreshnessWindow
  /\ \A r \in Range(PriorReleases(source)) : Truthy(r.download_url) => Truthy(r.sha256)

\* C4: without --force-hash, a descriptor whose cached record is at most seven
\* days old and has a hash for every release with a download URL is not
\* requested from the host, nothing is downloaded for it, and its record
\* carries the cached release list.
C4_FreshCompleteReused ==
  (variant = "hashes" /\ ~forceHash) =>
    \A k \in 1..Len(calls) :
       (calls[k].parsed /\ FreshAndComplete(calls[k].source_location)) =>
          /\ ~calls[k].requested
          /\ calls[k].downloads = <<>>
          /\ calls[k].pushed
          /\ PushedFor(k).releases = PriorReleases(calls[k].source_location)

\* A descriptor reused from a record exactly seven days old whose two releases
\* carry a hash.
C4_Witness ==
  /\ variant = "hashes" /\ ~forceHash
  /\ \E k \in 1..Len(calls) :
        LET source == calls[k].source_location
        IN /\ calls[k].parsed /\ FreshAndComplete(source)
           /\ now - existingCache[CachedAt(source)].last_updated = FreshnessWindow
           /\ Len(PriorReleases(source)) = 2
           /\ ~calls[k].requested /\ calls[k].pushed

\* The release of a list with the given version, as <<r>>, or <<>>.
WithVersion(releases, version) ==
  LET hit == {k \in 1..Len(releases) : releases[k].version = version}
  IN IF hit = {} THEN <<>> ELSE <<releases[CHOOSE k \in hit : \A j \in hit : k <= j]>>

\* C5: when a mod is refreshed without --force-hash, a release that already
\* has a cached hash is not downloaded again and keeps the cached hash and
\* file size.
C5_CachedHashNotDownloadedAgain ==
  (variant = "hashes" /\ ~forceHash) =>
    \A k \in 1..Len(calls) :
       (calls[k].requested /\ calls[k].api = ApiOk /\ calls[k].pushed) =>
          \A r \in Range(PushedFor(k).releases) :
             LET cached == WithVersion(calls[k].existing, r.version)
             IN (cached # <<>> /\ Truthy(cached[1].sha256)) =>
                   /\ r.download_url \notin Range(calls[k].downloads)
                   /\ r.sha256 = cached[1].sha256
                   /\ r.file_size = cached[1].file_size

\* C6: when the download of a release fails and the cache holds a hash for
\* the same version, the release carries that hash; its hash is empty only
\* when the cache held none.
C6_FailedDownloadKeepsCachedHash ==
  variant = "hashes" =>
    \A k \in 1..Len(calls) :
       (calls[k].requested /\ calls[k].api = ApiOk /\ calls[k].pushed) =>
          \A r \in Range(PushedFor(k).releases) :
             LET cached == WithVersion(calls[k].existing, r.version)
             IN (r.download_url \in calls[k].failing /\ cached # <<>> /\ Truthy(cached[1].sha256)) =>
                   r.sha256 = cached[1].sha256

\* A mod record without its timestamps.
Untimed(record) ==
  [f \in (DOMAIN record) \ {"last_updated", "hash_metadata"} |->  record[f]]

SameButTimestamps(a, b) ==
  /\ Untimed(a) = Untimed(b)
  /\ a.hash_metadata.total_releases = b.hash_metadata.total_releases
  /\ a.hash_metadata.releases_with_hash = b.hash_metadata.releases_with_hash

\* The run is a with-hashes run without --force-hash over the cache written by
\* a with-hashes run, with the same manifest, no upstream change, every cached
\* record less than seven days old, and every release-list request of both
\* runs succeeding.
SecondOfTwoRuns ==
  /\ variant = "hashes" /\ ~forceHash
  /\ prev.variant = "hashes" /\ prev.host = host /\ ~prev.requestFailed
  /\ \A k \in 1..Len(existingCache) : now - existingCache[k].last_updated < FreshnessWindow
  /\ \A k \in 1..Len(calls) : calls[k].api = ApiOk

\* The second run downloads nothing and its output equals the first run's
\* output except for the timestamps.
SecondRunRepeatsFirst ==
  /\ \A k \in 1..Len(calls) : calls[k].downloads = <<>>
  /\ Len(mods) = Len(existingCache)
  /\ \A k \in 1..Len(mods) : SameButTimestamps(mods[k], existingCache[k])

\* C7 as stated: the second of two with-hashes runs (no force, cache less than
\* seven days old, no upstream change, every release-list request succeeding)
\* downloads nothing and writes the first run's output again, timestamps
\* aside, whatever the assets are and whichever downloads fail.
C7_SecondRunIdempotent ==
  (pc = "write" /\ SecondOfTwoRuns) => SecondRunRepeatsFirst

\* Every release of the cache that has a download URL carries a hash.
CacheComplete ==
  \A k \in 1..Len(existingCache) :
     \A r \in Range(existingCache[k].releases) : Truthy(r.download_url) => Truthy(r.sha256)

\* C7, amended: the same, provided every release with a download URL in the
\* first run's output carries a hash; the second run then makes no request at
\* all.
C7_SecondRunIdempotentWhenComplete ==
  (pc = "write" /\ SecondOfTwoRuns /\ CacheComplete) =>
     (SecondRunRepeatsFirst /\ \A k \in 1..Len(calls) : ~calls[k].requested)

\* A second run over a complete cache of three records, two of them for the
\* same repository, with hashed releases.
C7_Witness ==
  /\ pc = "write" /\ SecondOfTwoRuns /\ CacheComplete
  /\ Len(mods) = 3
  /\ \E k \in 1..Len(existingCache) :
        Len(existingCache[k].releases) = 2 /\ Truthy(existingCache[k].releases[1].sha256)

\* C8: a descriptor with a parseable reference is requested from the host
\* exactly when the cache holds no record for it, or the record has no
\* last_updated or is more than seven days old, or a cached release with a
\* download URL lacks a hash, or --force-hash is given.
C8_RequestedExactlyWhen ==
  variant = "hashes" =>
    \A k \in 1..Len(calls) :
       calls[k].parsed =>
         LET source == calls[k].source_location
         IN calls[k].requested <=>
              \/ CachedAt(source) = 0
              \/ "last_updated" \notin DOMAIN existingCache[CachedAt(source)]
              \/ now - existingCache[CachedAt(source)].last_updated > FreshnessWindow
              \/ \E r \in Range(PriorReleases(source)) : Truthy(r.download_url) /\ ~Truthy(r.sha256)
              \/ forceHash

\* A descriptor requested only because one of its two cached releases lacks a
\* hash: the record is fresh and the flag is absent.
C8_Witness ==
  /\ variant = "hashes" /\ ~forceHash
  /\ \E k \in 1..Len(calls) :
        LET source == calls[k].source_location
        IN /\ calls[k].parsed /\ calls[k].requested
           /\ CachedAt(source) # 0
           /\ now - existingCache[CachedAt(source)].last_updated <= FreshnessWindow
           /\ \E r \in Range(PriorReleases(source)) : Truthy(r.sha256)
           /\ \E r \in Range(PriorReleases(source)) : Truthy(r.download_url) /\ ~Truthy(r.sha256)

\* What a download of the asset yields in a call where the URLs of failing fail.
Downloaded(url, failing) ==
  IF url \in failing \/ contentLength(Remote(url)) > maxSize THEN Null
  ELSE Sha256(Remote(url).body)

NewestFirst(releases) ==
  \A i, j \in 1..Len(releases) :
     i < j => releases[i].published_at >= releases[j].published_at

\* C10: in every record the run accumulates and in every record of the written
\* cache, the releases are ordered newest first by publication time.
C10_ReleasesNewestFirst ==
  /\ \A k \in 1..Len(mods) : NewestFirst(mods[k].releases)
  /\ \A k \in 1..Len(modsJson) : NewestFirst(modsJson[k].releases)

\* After a second run in which a request failed, a written record whose
\* releases the host listed oldest first.
C10_Witness ==
  /\ runs = 2 /\ pc = "idle" /\ exitCode = 0 /\ prev.requestFailed
  /\ \E k \in 1..Len(modsJson) :
        /\ modsJson[k].source_location \in GitHubUrls
        /\ prev.host[modsJson[k].source_location] = <<"v1", "v2">>
        /\ Len(modsJson[k].releases) = 2
        /\ modsJson[k].releases[1].version = "v2"
        /\ modsJson[k].releases[2].version = "v1"

-----------------------------------------------------------------------------
(* Properties of a single call (CallSpec) *)

\* The call of a collector that has returned.
Called(fn) == returned # <<>> /\ returned[1].fn = fn

\* The releases the host listed for Repo1 in the call.
Listed == GivenLists[Repo1]

\* C11: in every mod record built from what getAllReleasesWithHashes or the
\* update script's getAllReleases returned, no two releases of the mod share a
\* version tag, whatever release list the host API answered with.
C11_VersionTagsUnique ==
  (Called("getAllReleasesWithHashes") \/ Called("getAllReleases")) =>
    \A m \in Range(returned[1].mods) :
       \A i, j \in 1..Len(m.releases) :
          i # j => m.releases[i].version # m.releases[j].version

\* Whether a release the host lists has an asset with one of the names.
HasAsset(release, names) == \E k \in 1..Len(release.assets) : release.assets[k].name \in names

\* The number of listed releases tagged t that have an asset with one of the names.
ListedWith(t, names) ==
  Cardinality({k \in 1..Len(Listed) : Listed[k].tag_name = t /\ HasAsset(Listed[k], names)})

\* The number of entries of a returned list whose version is t.
EntriesFor(releases, t) == Cardinality({k \in 1..Len(releases) : releases[k].version = t})

\* C12: when the release-list request succeeds, the list getAllReleasesWithHashes
\* returns holds one entry per listed release that has a .dll asset, and the
\* list the update script's getAllReleases returns one entry per listed release
\* that has a .dll or a .nupkg asset; a release without such an asset has no
\* entry, nothing is raised, and no entry comes from the prior cache.
C12_KeptExactlyWhenRecognisedAsset ==
  /\ (Called("getAllReleasesWithHashes") /\ returned[1].api = ApiOk) =>
       /\ ~returned[1].thrown
       /\ \A t \in Tags :
             EntriesFor(returned[1].releases, t) = ListedWith(t, {"Mod.dll"})
  /\ (Called("getAllReleases") /\ returned[1].api = ApiOk) =>
       /\ ~returned[1].thrown
       /\ \A t \in Tags :
             EntriesFor(returned[1].releases, t) = ListedWith(t, {"Mod.dll", "Mod.nupkg"})

\* A successful call with a cached list, in which the host lists a release
\* without a recognised asset and one with: the returned list has one entry.
C12_Witness ==
  /\ Called("getAllReleasesWithHashes") \/ Called("getAllReleases")
  /\ returned[1].api = ApiOk
  /\ given.existingReleases # <<>>
  /\ \E k \in 1..Len(Listed) : ~HasAsset(Listed[k], {"Mod.dll", "Mod.nupkg"})
  /\ \E k \in 1..Len(Listed) : HasAsset(Listed[k], {"Mod.dll"}) /\ Listed[k].tag_name = "v7"
  /\ Len(returned[1].releases) = 1

\* C13: the collector that computes no hashes, run on a manifest whose one mod
\* entry names a repository with two releases, one with a .dll asset and one
\* with no asset at all, yields a mod record with exactly one release.
C13_StandardDropsReleaseWithoutAsset ==
  ( /\ Called("collectModInfo")
    /\ returned[1].api = ApiOk
    /\ Len(returned[1].mods) = 1
    /\ Len(Listed) = 2
    /\ \E k \in 1..2 : HasAsset(Listed[k], {"Mod.dll"})
    /\ \E k \in 1..2 : Listed[k].assets = <<>> )
  => Len(returned[1].mods[1].releases) = 1

\* C14: in the list the update script's getAllReleases returns after a
\* successful list request, every entry that stands for a listed release with
\* both a .dll and a .nupkg asset carries the .dll asset (its file name and its
\* download URL), whatever the order of the assets.
C14_DllPreferredOverNupkg ==
  (Called("getAllReleases") /\ returned[1].api = ApiOk) =>
    \A k \in 1..Len(Listed) :
       (HasAsset(Listed[k], {"Mod.dll"}) /\ HasAsset(Listed[k], {"Mod.nupkg"})) =>
          \A j \in 1..Len(returned[1].releases) :
             returned[1].releases[j].version = Listed[k].tag_name =>
               /\ returned[1].releases[j].file_name = "Mod.dll"
               /\ returned[1].releases[j].download_url = AssetUrl(Repo1, Listed[k].tag_name)

\* The positions <<mod, release>> of the releases of a mod list that carry a hash.
Hashed(ms) ==
  {p \in UNION { {<<i, k>> : k \in 1..Len(ms[i].releases)} : i \in 1..Len(ms) } :
      Truthy(ms[p[1]].releases[p[2]].sha256)}

\* The number of records an index holds under the given keys.
RECURSIVE RecordCount(_, _)
RecordCount(index, keys) ==
  IF keys = {} THEN 0
  ELSE LET h == CHOOSE x \in keys : TRUE
       IN Len(index[h]) + RecordCount(index, keys \ {h})

\* C15: the index createHashLookupTable builds from a mod list holds, for every
\* release with a non-empty hash, under that hash a record with the mod's name
\* and source and the release's version; it holds as many records as there are
\* releases with a non-empty hash, so a release without a hash contributes none.
C15_IndexCompleteAndExact ==
  (Called("getAllReleasesWithHashes") /\ returned[1].indexed) =>
    LET ms == returned[1].mods
        index == returned[1].index
    IN /\ \A p \in Hashed(ms) :
             LET mod == ms[p[1]]
                 release == mod.releases[p[2]]
             IN /\ release.sha256 \in DOMAIN index
                /\ \E k \in 1..Len(index[release.sha256]) :
                      /\ index[release.sha256][k].mod_name = mod.name
                      /\ index[release.sha256][k].mod_source = mod.source_location
                      /\ index[release.sha256][k].version = release.version
       /\ RecordCount(index, DOMAIN index) = Cardinality(Hashed(ms))

\* An index built from a list in which two mods carry the same hash and one
\* release carries none.
C15_Witness ==
  /\ Called("getAllReleasesWithHashes") /\ returned[1].indexed
  /\ \E h \in DOMAIN returned[1].index : Len(returned[1].index[h]) >= 2
  /\ \E m \in Range(returned[1].mods) : \E r \in Range(m.releases) : ~Truthy(r.sha256)

\* C16: in the index the update script's generateHashLookup builds, every
\* release with a hash and a download URL has its record under that hash, also
\* when another release, of the same mod or of another, carries the same hash.
C16_UpdateIndexKeepsEachRelease ==
  (Called("getAllReleases") /\ returned[1].indexed) =>
    LET ms == returned[1].mods
        index == returned[1].index
    IN \A p \in Hashed(ms) :
          LET mod == ms[p[1]]
              release == mod.releases[p[2]]
          IN Truthy(release.download_url) =>
               /\ release.sha256 \in DOMAIN index
               /\ index[release.sha256].mod_name = mod.name
               /\ index[release.sha256].version = release.version
               /\ index[release.sha256].download_url = release.download_url

-----------------------------------------------------------------------------
(* Properties of the runs (Spec), continued *)

\* The lowercase hexadecimal SHA-256 digests of the files the host serves.
HexDigests == {Sha256(f.file.body) : f \in Files}

\* C17: after runs that started from the empty cache, the index last written by
\* the with-hashes script has only keys that are 64-character lowercase hex
\* digests, and under each key at least one record with a non-empty
\* download_url.
C17_IndexKeysAreDigestsWithUrl ==
  (prev # NoPrev /\ prev.variant = "hashes") =>
    \A h \in DOMAIN hashLookupJson :
       /\ Len(h) = 64
       /\ h \in HexDigests
       /\ \E k \in 1..Len(hashLookupJson[h]) : Truthy(hashLookupJson[h][k].download_url)

\* Two runs after the empty cache, the second one of the with-hashes script, wrote
\* an index with several keys while a release without a hash is in the cache.
C17_Witness ==
  /\ pc = "idle" /\ runs = 2
  /\ prev # NoPrev /\ prev.variant = "hashes"
  /\ Cardinality(DOMAIN hashLookupJson) >= 2
  /\ \E m \in Range(modsJson) : \E r \in Range(m.releases) : ~Truthy(r.sha256)

\* The .dll asset of a release the host lists, as <<asset>>, or <<>>.
DllOf(release) ==
  LET hit == {k \in 1..Len(release.assets) : release.assets[k].name = "Mod.dll"}
  IN IF hit = {} THEN <<>> ELSE <<release.assets[CHOOSE k \in hit : \A j \in hit : k <= j]>>

\* Whether the response for a download URL announces more than the ceiling.
TooLargeByHeader(url) ==
  Remote(url).content_length # <<>> /\ Remote(url).content_length[1] > maxSize

\* C18: in a with-hashes run, when the release list of a descriptor arrives and
\* the download of a listed release's .dll answers with a content-length above
\* 50 MB, the record pushed for the descriptor holds that release with sha256
\* null and with the size the hosting platform reported for the asset, and it
\* holds the other listed releases with a .dll as well.
C18_OversizedWrittenWithoutHash ==
  variant = "hashes" =>
    \A k \in 1..Len(calls) :
       (calls[k].requested /\ calls[k].api = ApiOk /\ calls[k].pushed) =>
         LET listed == HostList(calls[k].source_location, host[calls[k].source_location])
             written == PushedFor(k).releases
         IN \A i \in 1..Len(listed) :
               DllOf(listed[i]) # <<>> =>
                 \E j \in 1..Len(written) :
                    /\ written[j].version = listed[i].tag_name
                    /\ (/\ DllOf(listed[i])[1].browser_download_url \notin calls[k].failing
                        /\ TooLargeByHeader(DllOf(listed[i])[1].browser_download_url))
                       => /\ written[j].sha256 = Null
                          /\ written[j].file_size = DllOf(listed[i])[1].size

\* A with-hashes run about to write: a descriptor's list held a release above
\* the ceiling, next to a release that was hashed, and a later descriptor was
\* resolved with hashes too.
C18_Witness ==
  /\ variant = "hashes" /\ pc = "write"
  /\ \E k \in 1..Len(calls) :
        /\ calls[k].requested /\ calls[k].api = ApiOk /\ calls[k].pushed
        /\ \E r \in Range(PushedFor(k).releases) :
              r.version = "v3" /\ r.sha256 = Null /\ r.file_size = 60000000
        /\ \E r \in Range(PushedFor(k).releases) : Truthy(r.sha256)
        /\ \E j \in (k + 1)..Len(calls) :
              calls[j].pushed /\ \E r \in Range(PushedFor(j).releases) : Truthy(r.sha256)

-----------------------------------------------------------------------------
(* Properties of a single call (CallSpec), continued *)

\* The URLs downloadAndHash was called with in the call that returned.
DownloadedUrls == Range(returned[1].downloads)

\* C19: in what getAllReleasesWithHashes or the update script's getAllReleases
\* returns, a release whose asset was downloaded in the call and whose
\* downloaded content is larger than 50 MB carries no hash, also when the
\* response has no content-length header or one that understates the content.
C19_OversizedContentNeverHashed ==
  (Called("getAllReleasesWithHashes") \/ Called("getAllReleases")) =>
    \A r \in Range(returned[1].releases) :
       (/\ r.download_url \in DownloadedUrls
        /\ Remote(r.download_url).length > maxSize)
       => r.sha256 = Null

\* C20: in what either function returns, a release whose hash was computed in
\* the call (its asset was downloaded and the download yielded a hash) has as
\* file_size the number of bytes downloaded, for every downloaded length and
\* whatever size the hosting API reported for the asset.
C20_HashedSizeIsDownloadedLength ==
  (Called("getAllReleasesWithHashes") \/ Called("getAllReleases")) =>
    \A r \in Range(returned[1].releases) :
       (/\ r.download_url \in DownloadedUrls
        /\ r.download_url \notin given.failing
        /\ Truthy(r.sha256))
       => r.file_size = Remote(r.download_url).length

-----------------------------------------------------------------------------
(* Properties of the runs (Spec): failures, additional repositories, writing *)

\* A step in which a process starts and ends at once: fetchModManifest rejected
\* (the fetch failed, or the body is not JSON).
ManifestFailed == pc = "idle" /\ runs' = runs + 1 /\ pc' = "idle"

\* C21: when fetching or parsing the manifest fails, the process ends with a
\* non-zero exit code and cache/mods.json and cache/hash-lookup.json are what
\* they were before the run.
C21_ManifestFailureLeavesCache ==
  [][ManifestFailed =>
       /\ exitCode' = 1
       /\ modsJson' = modsJson
       /\ hashLookupJson' = hashLookupJson]_vars

\* A run over a manifest and configuration that cannot fail otherwise ended
\* with exit code 1 while a cache written by an earlier run is in place.
C21_Witness ==
  /\ pc = "idle" /\ exitCode = 1 /\ runs = 2
  /\ manifestDoc = <<Alpha, Beta>> /\ repositoriesJson = NoRepositoriesFile
  /\ modsJson # <<>> /\ DOMAIN hashLookupJson # {}

\* C22: a run whose manifest was fetched and parsed ends with exit code 0,
\* whatever repositories.json and the prior cache hold, whatever repository
\* references the entries carry, and however the release-list requests and the
\* downloads end.
C22_NonZeroExitOnlyOnManifestFailure ==
  [][(pc # "idle" /\ pc' = "idle") => exitCode' = 0]_vars

\* repositories.json is missing, unreadable, not JSON, or has no repositories array.
NoUsableRepositories == ~repositoriesJson.readable \/ "repositories" \notin DOMAIN repositoriesJson

\* The records of a mod list are those of the manifest entries, one each, in order.
FromManifestAlone(ms, m) ==
  /\ Len(ms) = Len(m)
  /\ \A k \in 1..Len(m) :
        /\ ms[k].name = m[k].name
        /\ ms[k].source_location = m[k].sourceLocation
        /\ ms[k].source = "manifest"

\* C23: in a run that finds no usable repositories.json,
\* loadAdditionalRepositories yields no entry, and the run ends with exit code 0
\* having written a mod list built from the manifest entries alone.
C23_NoRepositoriesFileStillSucceeds ==
  [][(pc # "idle" /\ NoUsableRepositories) =>
       /\ additionalRepos = <<>>
       /\ pc' = "idle" =>
            /\ exitCode' = 0
            /\ modsJson' = mods
            /\ FromManifestAlone(modsJson', manifest)]_vars

\* A run with a repositories.json that has no repositories array has written.
C23_Witness ==
  /\ pc = "idle" /\ exitCode = 0
  /\ repositoriesJson = NoRepositoriesArray
  /\ Len(modsJson) = 1 /\ modsJson[1].name = "Alpha" /\ modsJson[1].releases # <<>>

\* The entries of repositories.json, enabled or not.
ConfiguredRepositories ==
  IF NoUsableRepositories THEN <<>> ELSE repositoriesJson.repositories

\* enabled === false
Disabled(e) == "enabled" \in DOMAIN e /\ e.enabled = FALSE

\* The repository references the running script takes from the manifest and
\* from the entries that are not disabled.
ReferencedWhenEnabled ==
  {manifest[k].sourceLocation : k \in 1..Len(manifest)} \cup
  {ReferenceOf(variant, e) : e \in {x \in Range(ConfiguredRepositories) : ~Disabled(x)}}

\* C24: an entry of repositories.json with enabled = false is never among the
\* additional repositories of a run, no accumulated or written record bears its
\* name, and no descriptor is handled (so no host request made) for a repository
\* that only it refers to; an entry without an enabled field is among the
\* additional repositories of every run.
C24_OnlyEnabledRepositories ==
  \A e \in Range(ConfiguredRepositories) :
     IF Disabled(e)
     THEN /\ \A r \in Range(modsJson) : r.name # e.name
          /\ pc # "idle" =>
               /\ \A a \in Range(additionalRepos) : a.name # e.name
               /\ \A r \in Range(mods) : r.name # e.name
               /\ ReferenceOf(variant, e) \notin ReferencedWhenEnabled =>
                    \A k \in 1..Len(calls) : calls[k].source_location # ReferenceOf(variant, e)
     ELSE pc # "idle" => \E a \in Range(additionalRepos) : a.name = e.name

\* A run wrote the record of an entry without an enabled field while the file
\* also holds an entry with enabled = false.
C24_Witness ==
  /\ pc = "idle" /\ exitCode = 0
  /\ \E e \in Range(ConfiguredRepositories) : Disabled(e)
  /\ \E e \in Range(ConfiguredRepositories) :
        /\ "enabled" \notin DOMAIN e
        /\ \E r \in Range(modsJson) : r.name = e.name /\ r.source = "additional"

\* C25: every descriptor handled whose repository reference does not parse as a
\* GitHub owner/repo, from the manifest or from the additional repositories,
\* has a record in the accumulated list, with its reference as source_location
\* and with no releases, and no host request was made for it.
C25_UnparseableStillRecorded ==
  \A k \in 1..Len(calls) :
     ~calls[k].parsed =>
       /\ ~calls[k].requested
       /\ calls[k].pushed
       /\ PushedFor(k).source_location = calls[k].source_location
       /\ PushedFor(k).releases = <<>>

\* The GitHub reference an entry gives under repository or under url, as <<ref>>,
\* or <<>> when it gives none.
GivenReference(e) ==
  IF Get(e, "repository") \in GitHubUrls THEN <<e.repository>>
  ELSE IF Get(e, "url") \in GitHubUrls THEN <<e.url>>
  ELSE <<>>

\* C26: in either script, the step that handles an additional repository with a
\* GitHub reference under repository or under url resolves it and appends a
\* record with that reference as source_location.
C26_EitherKeyResolved ==
  [][(/\ pc = "additional"
      /\ idx <= Len(additionalRepos)
      /\ GivenReference(additionalRepos[idx]) # <<>>) =>
        /\ Len(calls') = Len(calls) + 1
        /\ calls'[Len(calls')].parsed
        /\ calls'[Len(calls')].source_location = GivenReference(additionalRepos[idx])[1]
        /\ Len(mods') = Len(mods) + 1
        /\ mods'[Len(mods')].source_location = GivenReference(additionalRepos[idx])[1]
        /\ mods'[Len(mods')].source = "additional"]_vars

\* The additional repositories whose reference the running script can parse.
ParsedRepositories ==
  SelectSeq(additionalRepos, LAMBDA r : parseGitHubUrl(ReferenceOf(variant, r)) # <<>>)

\* The list holds one record for every manifest entry, in the manifest's order,
\* and after them the records of the additional repositories, in their order.
InCollectionOrder(ms) ==
  /\ Len(ms) = Len(manifest) + Len(ParsedRepositories)
  /\ \A k \in 1..Len(manifest) :
        /\ ms[k].name = manifest[k].name
        /\ ms[k].source_location = manifest[k].sourceLocation
        /\ ms[k].source = "manifest"
  /\ \A k \in 1..Len(ParsedRepositories) :
        /\ ms[Len(manifest) + k].name =
             AdditionalName(variant, ParsedRepositories[k], ReferenceOf(variant, ParsedRepositories[k]))
        /\ ms[Len(manifest) + k].source_location = ReferenceOf(variant, ParsedRepositories[k])
        /\ ms[Len(manifest) + k].source = "additional"

\* C27: the step that writes cache/mods.json writes exactly the accumulated
\* list, and that list holds one record per manifest entry in manifest order
\* followed by the records of the additional repositories in configured order.
C27_WrittenListIsAccumulatedList ==
  [][(pc = "write" /\ pc' = "idle") => (modsJson' = mods /\ InCollectionOrder(modsJson'))]_vars

C27_Witness ==
  /\ pc = "idle" /\ exitCode = 0
  /\ manifestDoc = <<Gamma, Alpha>>
  /\ Len(modsJson) = 3
  /\ modsJson[1].name = "Gamma" /\ modsJson[2].name = "Alpha" /\ modsJson[3].source = "additional"
  /\ modsJson[2].releases # <<>>

-----------------------------------------------------------------------------
(* Properties of the steps of a run (StepSpec) *)

\* The last thing that happened is that a download settled.
DownloadSettled == op.last.ev = "end" /\ op.last.kind = "download"

\* C28: whatever a download settled as (a hash, a failure, or a stop at the
\* size ceiling), the next thing that happens in the run is the delay of
\* DownloadDelay milliseconds elapsing; no download or host request begins
\* before it.
C28_DelayFollowsEveryDownload ==
  [][DownloadSettled => op'.last = Event("timer", "delay", "", TRUE, DownloadDelay)]_vars

C28_Witness ==
  /\ op.last = Event("timer", "delay", "", TRUE, DownloadDelay)
  /\ op.k = 3
  /\ contentLength(Remote(op.downloads[1])) > maxSize
  /\ op.downloads[2] \in op.failing

\* The operations that are network requests or file operations.
NetworkOrFile == {"fetch", "listReleases", "download", "readFile", "mkdir", "writeFile"}

\* The number of entries of the loop the run is in that were handled before
\* the current one and whose reference the script parses.
ParsedBefore ==
  Cardinality({j \in 1..(idx - 1) :
                 parseGitHubUrl(ReferenceOf(variant, additionalRepos[j])) # <<>>})

\* C29: at every moment of a run at most one network request or file operation
\* is in flight; while a release-list request or a download for a descriptor
\* is in flight, the record of every descriptor before it has been appended;
\* and a download is in flight only for the release the collector's loop is at,
\* every download before it having settled.
C29_OneOperationInFlight ==
  /\ Cardinality({o \in op.inflight : o.kind \in NetworkOrFile}) <= 1
  /\ \A o \in op.inflight :
        /\ pc \in Awaiting /\ op.waiting /\ o = Operation
        /\ o.kind \in {"listReleases", "download"} =>
             Len(mods) = IF op.loop = "manifest" THEN idx - 1
                         ELSE Len(manifest) + ParsedBefore
        /\ o.kind = "download" => o.target = op.downloads[op.k]

C29_Witness ==
  /\ op.inflight = {[kind |-> "download", target |-> AssetUrl(Repo2, "v2")]}
  /\ op.k = 2
  /\ Len(mods) = 1
  /\ idx = 2

BothFiles == {"cache/mods.json", "cache/hash-lookup.json"}

\* The run ended because the manifest could not be fetched or parsed, and it
\* wrote nothing.
Aborted == exitCode = 1 /\ op.manifestFailed /\ op.written = {}

\* The run ended after writing both files from the accumulated list.
Written ==
  /\ exitCode = 0
  /\ op.written = BothFiles
  /\ modsJson = mods
  /\ hashLookupJson = IF variant = "hashes" THEN createHashLookupTable(mods)
                      ELSE generateHashLookup(mods)

\* C30: a run that has ended (every operation it awaited having settled one
\* way or the other) has ended either aborted by a manifest failure with nothing
\* written, or with both cache files written from the accumulated mods.
C30_EndsAbortedOrWritten == pc = "done" => (Aborted \/ Written)

-----------------------------------------------------------------------------
(* Properties of the runs (Spec): provenance of hashes, latest release,      *)
(* refresh across runs                                                       *)

\* The hash of release r in the record pushed for logged call k was computed in
\* this run from the download of r's own URL.
HashedInThisRun(k, r) ==
  /\ r.download_url \in Range(calls[k].downloads)
  /\ r.sha256 = Downloaded(r.download_url, calls[k].failing)

\* The hash of release r is the one the prior cache holds for the same source
\* and the same version tag.
HashFromPriorCache(k, r) ==
  \E q \in Range(PriorReleases(calls[k].source_location)) :
     q.version = r.version /\ q.sha256 = r.sha256

\* C31: in every record a run of either script accumulates (and then writes),
\* the hash of every release is empty, or computed in this run from the bytes
\* downloaded from the release's own download URL, or the hash the prior cache
\* holds for the same mod source and the same version tag.
C31_HashProvenance ==
  \A k \in 1..Len(calls) :
     calls[k].pushed =>
       \A r \in Range(PushedFor(k).releases) :
          \/ r.sha256 = Null
          \/ HashedInThisRun(k, r)
          \/ HashFromPriorCache(k, r)

\* A record with one release hashed in this run and one whose hash was copied
\* from the prior cache without a download.
C31_Witness ==
  /\ pc = "write"
  /\ \E k \in 1..Len(calls) :
        /\ calls[k].pushed
        /\ \E r \in Range(PushedFor(k).releases) :
              r.sha256 # Null /\ HashedInThisRun(k, r) /\ ~HashFromPriorCache(k, r)
        /\ \E r \in Range(PushedFor(k).releases) :
              r.sha256 # Null /\ ~HashedInThisRun(k, r) /\ HashFromPriorCache(k, r)

\* The latest-release fields of a record are those of a release of its list
\* that no other release of the list is newer than, and the first one; they are
\* null exactly when the list is empty.
LatestIsNewest(mod) ==
  IF mod.releases = <<>>
  THEN mod.latest_version = Null /\ mod.latest_download_url = Null
  ELSE /\ mod.latest_version = mod.releases[1].version
       /\ mod.latest_download_url = mod.releases[1].download_url
       /\ mod.latest_version # Null /\ mod.latest_download_url # Null
       /\ \A j \in 1..Len(mod.releases) :
             mod.releases[1].published_at >= mod.releases[j].published_at

\* C32: in every record a run of either script accumulates and in every record
\* of the written cache, latest_version and latest_download_url are those of
\* the first release of the record's list, which has the greatest publish
\* timestamp, and both are null exactly when the list is empty.
C32_LatestIsNewestRelease ==
  /\ \A k \in 1..Len(mods) : LatestIsNewest(mods[k])
  /\ \A k \in 1..Len(modsJson) : LatestIsNewest(modsJson[k])

\* A written cache with a record without releases and a record whose host list
\* came oldest first.
C32_Witness ==
  /\ pc = "idle" /\ exitCode = 0
  /\ \E k \in 1..Len(modsJson) : modsJson[k].releases = <<>>
  /\ \E k \in 1..Len(modsJson) :
        /\ Len(modsJson[k].releases) = 2
        /\ modsJson[k].latest_version = "v2"
        /\ prev.host[modsJson[k].source_location] = <<"v1", "v2">>

-----------------------------------------------------------------------------
(* Properties of runs at a fixed interval (RefreshSpec) *)

\* C33: in a run of the with-hashes script, every descriptor with a parseable
\* reference whose release list was last received from the host more than
\* seven days ago is requested from the host again.
C33_RequestedAgainAfterSevenDays ==
  variant = "hashes" =>
    \A k \in 1..Len(calls) :
       (/\ calls[k].parsed
        /\ prev.fetchedAt[calls[k].source_location] # NeverFetched
        /\ now - prev.fetchedAt[calls[k].source_location] > FreshnessWindow)
       => calls[k].requested

\* C34: when the release-list request of a descriptor failed in the last
\* with-hashes run that wrote the cache, the next with-hashes run requests that
\* descriptor's release list again, and when the host answers it writes the
\* releases resolved from the answer.
C34_FailedRequestRetriedNextRun ==
  (variant = "hashes" /\ prev.variant = "hashes") =>
    \A k \in 1..Len(calls) :
       (calls[k].parsed /\ calls[k].source_location \in prev.failed) =>
          /\ calls[k].requested
          /\ (calls[k].api = ApiOk /\ calls[k].pushed) => PushedFor(k).releases = calls[k].value

-----------------------------------------------------------------------------
(* Properties of the runs (Spec): hashes kept by the update script *)

\* The tags of the host's releases of a repository that carry a .dll or a
\* .nupkg asset.
RecognisedTags(source) ==
  {q.tag_name : q \in {q \in Range(HostList(source, host[source])) :
                          FindAsset(q.assets, {".dll", ".nupkg"}) # <<>>}}

\* C35: in a run of the update script, for every release version the prior
\* cache holds with a hash for a descriptor's source, if the host still lists
\* that version with a recognised asset or the release-list request fails, the
\* record pushed for the descriptor has that version, and with the same hash.
C35_UpdateKeepsHashes ==
  variant = "update" =>
    \A k \in 1..Len(calls) :
       (calls[k].parsed /\ calls[k].pushed) =>
          \A q \in Range(PriorReleases(calls[k].source_location)) :
             (/\ Truthy(q.sha256)
              /\ (calls[k].api # ApiOk \/ q.version \in RecognisedTags(calls[k].source_location)))
             => /\ \E r \in Range(PushedFor(k).releases) : r.version = q.version
                /\ \A r \in Range(PushedFor(k).releases) :
                      r.version = q.version => r.sha256 = q.sha256

\* An update run over a cache with hashes: one descriptor whose request failed
\* and one whose list the host answered with, a hashed version still listed.
C35_Witness ==
  /\ variant = "update" /\ pc = "write"
  /\ \E k \in 1..Len(calls) :
        /\ calls[k].pushed /\ calls[k].api # ApiOk
        /\ \E q \in Range(PriorReleases(calls[k].source_location)) : Truthy(q.sha256)
  /\ \E k \in 1..Len(calls) :
        /\ calls[k].pushed /\ calls[k].api = ApiOk /\ calls[k].requested
        /\ \E q \in Range(PriorReleases(calls[k].source_location)) :
              Truthy(q.sha256) /\ q.version \in RecognisedTags(calls[k].source_location)

-----------------------------------------------------------------------------
(* Properties of the steps of a run (StepSpec): the two files *)

\* cache/hash-lookup.json is the index of cache/mods.json, as the script of
\* the run builds it.
IndexMatchesMods ==
  hashLookupJson = IF variant = "hashes" THEN createHashLookupTable(modsJson)
                   ELSE generateHashLookup(modsJson)

\* C36: whenever a run has ended, with success or with any failure, the
\* persisted cache/hash-lookup.json is the index derived from the persisted
\* cache/mods.json.
C36_FilesConsistentAtEnd == pc = "done" => IndexMatchesMods

-----------------------------------------------------------------------------
(* Properties of the scheduled workflow (WorkflowSpec) *)

\* The job reaches its check for changes after the script succeeded, with the
\* cache of the previous run committed and the host's release lists as they
\* were at the previous run.
ChecksWithNothingChanged ==
  /\ workflow.phase = "checked out" /\ workflow'.phase = "idle"
  /\ exitCode = 0
  /\ workflow.tracked
  /\ workflow.seen = host

\* C37: when nothing changed upstream since the previous run and the previous
\* cache is committed, the scheduled workflow finds no difference under cache/,
\* takes its no-changes path and makes no commit.
C37_NoCommitWhenNothingChanged ==
  [][ChecksWithNothingChanged =>
       (workflow'.outcome = "no changes" /\ workflow'.commits = workflow.commits)]_vars

====
